---- MODULE Spec2Model ----
(***************************************************************************)
(* Model of the MQTT connection manager DRMQTT (src/src/io/mqtt_client.py) *)
(* of the Digital Replica container: start(), stop(), restart_with(),      *)
(* the background task of reconnect_async(), publish_cmd() and the three   *)
(* transport callbacks, run by the threads that run them in the program:   *)
(* the application thread, HTTP request threads, one daemon thread per     *)
(* reconfiguration and the transport's loop thread of each client handle.  *)
(* One action is one line (or one uninterruptible group of lines) of the   *)
(* Python code; the manager's RLock is the only synchronisation.           *)
(***************************************************************************)
EXTENDS Integers, Sequences, FiniteSets, TLC

\* ------------------------------------------------------------------ bounds
MaxRestarts == 2      \* restart_with calls in one behaviour
MaxAppCalls == 2      \* start()/stop() calls of the application thread
MaxPublishes == 1     \* publish_cmd calls in one behaviour
MaxMsgs == 2          \* inbound telemetry messages in one behaviour
MaxPayloadLen == 3    \* bytes of an inbound payload
MaxTopicLen == 3      \* tokens of an inbound topic
MaxRequests == 2      \* HTTP requests in one behaviour

\* ------------------------------------------------------- program constants
StartAttempts == 10        \* range(1, 11)
ReconnectAttempts == 3     \* attempts: int = 3
\* Delays are kept in 1/128 s, in which the products by 1.5 below the cap are exact.
DelayStart == 64           \* delay = 0.5
DelayCap == 512            \* min(delay * 1.5, 4.0)
ReconnectSleep == 128      \* time.sleep(1.0)

\* ------------------------------------------------------------------ values
None == 0                  \* self.client is None
NoHost == "unset"          \* a handle on which connect() was never called

\* Config snapshots.  Cfg0 is what __init__ reads (the defaults of the
\* persisted file); CfgA and CfgB are what PUT /admin/mqtt hands to
\* restart_with: the complete persisted config, every key present.
\* A topic string is a sequence of tokens, "/" being the separator.
Cfg0 == [host |-> "localhost", port |-> 1883,
         base_topic |-> <<"iot", "/", "dr-001">>,
         username |-> "", password |-> ""]
CfgA == [host |-> "hA", port |-> 1884,
         base_topic |-> <<"iot", "/", "dr-A">>,
         username |-> "uA", password |-> "pA"]
CfgB == [host |-> "hB", port |-> 1885,
         base_topic |-> <<"iot", "/", "dr-B">>,
         username |-> "uB", password |-> "pB"]
NewCfgs == {CfgA, CfgB}
Snapshots == {Cfg0} \cup NewCfgs
Endpoints == {<<c.host, c.port>> : c \in Snapshots}

\* Threads.
AppT == <<"app", 0>>                       \* the thread of create_app()
Admins == {<<"adm", 1>>, <<"adm", 2>>}     \* request threads of PUT /admin/mqtt
PubT == <<"pub", 0>>                       \* request thread of POST .../commands
Tasks == {<<"task", k>> : k \in 1..MaxRestarts}   \* mqtt-reconnect-<dr_id> threads
NoThread == <<"none", 0>>
LockThreads == {AppT} \cup Tasks
Threads == LockThreads \cup Admins \cup {PubT}
IngT == <<"ing", 0>>                       \* request thread of POST /ingest/<id>
HealthT == <<"health", 0>>                 \* request thread of GET /health
DbT == <<"dbadm", 0>>                      \* request thread of GET and PUT /admin/db
WebThreads == Admins \cup {PubT, IngT, HealthT, DbT}

VARIABLES
  cfg,        \* self.host, self.port, self.base_topic, self.username, self.password
  client,     \* self.client: a handle id, or None
  connected,  \* self._connected
  lockOwner,  \* the thread inside "with self._lock", or NoThread
  handles,    \* the mqtt.Client objects created so far, by id
  pc,         \* where each thread is
  appOp,      \* what the application thread is running: "start" or "stop"
  att,        \* the loop variable attempt / i of each connecting thread
  delay,      \* start()'s local delay, in 1/128 s
  newCfg,     \* restart_with's locals host, port, base, user, pwd
  nTasks,     \* reconnect threads started so far
  calls,      \* calls made so far: [app, restart, publish, msgs]
  appRes,     \* what the last start() returned: "none", "True", "False"
  pubDev,     \* publish_cmd's argument device_id
  pubTopic,   \* publish_cmd's local topic
  pubRes,     \* how the last publish_cmd ended
  outbox,     \* what publish_cmd handed to a handle's publish()
  dati,       \* the telemetry collection: documents inserted, in order
  clock,      \* datetime.now(): a logical clock, one tick per handled message
  failedAt,   \* clock values of the messages whose insert failed
  reachable,  \* the broker endpoints that accept a connection
  stopped,    \* stop() has returned and no start()/restart_with was called since
  lastCfg,    \* the snapshot of the latest restart_with call
  held,       \* per admin thread: the guard's owner at every step of its call
  token,      \* app.config["DR_TOKEN"]
  mqttFile,   \* the content of /data/mqtt.json
  dbFile,     \* the content of /data/db_uri.txt
  dbClient,   \* db.py's _client: the URI it was opened with, or NoHandle
  dbDb,       \* db.py's _db, likewise
  dbDati,     \* db.py's _dati, likewise
  dbUp,       \* the storage server answers
  route,      \* where each request thread is in its route function
  req,        \* the request each request thread handles, and the route's locals
  resp,       \* the last response each request thread sent
  commands,   \* the commands collection: documents inserted
  nReq,       \* requests received so far
  pubMsg      \* publish_cmd's argument message

\* The state of the HTTP layer, of the persisted files and of the storage module.
webVars == <<token, mqttFile, dbFile, dbClient, dbDb, dbDati, dbUp, route, req,
             resp, commands, nReq, pubMsg>>

vars == <<cfg, client, connected, lockOwner, handles, pc, appOp, att, delay,
          newCfg, nTasks, calls, appRes, pubDev, pubTopic, pubRes, outbox,
          dati, clock, failedAt, reachable, stopped, lastCfg, held, webVars>>

\* What no action of the connection life cycle touches.
msgVars == <<dati, clock, failedAt>>
pubVars == <<pubDev, pubTopic, pubRes, outbox>>

\* ----------------------------------------------------------------- helpers
Min(a, b) == IF a <= b THEN a ELSE b

\* dict.get(k, default)
Get(d, k, default) == IF k \in DOMAIN d THEN d[k] ELSE default

\* f"{self.base_topic}/+/telemetry"
telemetry_topic == cfg.base_topic \o <<"/", "+", "/", "telemetry">>

\* cmd_topic without the device level.
cmd_topic_NoDevice(device_id) == cfg.base_topic \o <<"/", "cmd">>

\* f"{self.base_topic}/{device_id}/cmd"
cmd_topic(device_id) == cfg.base_topic \o <<"/", device_id, "/", "cmd">>

\* mqtt.Client(client_id=..., clean_session=True) and username_pw_set: a
\* handle that is created, not connected, its loop thread not started.
\* loopTried records that the handle's loop thread has itself tried to
\* connect; maker, whether start() ("app") or a reconnect task made it.
NewHandle(u, p, t) ==
  [open |-> TRUE, user |-> u, pwd |-> p, host |-> NoHost, port |-> 0,
   sock |-> "none", loop |-> FALSE, subs |-> {}, inbox |-> <<>>,
   loopTried |-> FALSE, maker |-> t[1]]

\* A handle after loop_stop() and disconnect(): its loop thread is joined and
\* its socket closed; nothing of it is used again.
ClosedHandle ==
  [open |-> FALSE, user |-> "", pwd |-> "", host |-> NoHost, port |-> 0,
   sock |-> "none", loop |-> FALSE, subs |-> {}, inbox |-> <<>>,
   loopTried |-> FALSE, maker |-> "none"]

HandleIds == DOMAIN handles
LiveHandles == {h \in HandleIds : handles[h].open}

\* Budget with the range's end off by one.
Budget_OffByOne(t) == IF t = AppT THEN StartAttempts + 1 ELSE ReconnectAttempts + 1

\* The attempt budget of a connecting thread: range(1, 11) in start(),
\* range(1, attempts + 1) in _reconnect.
Budget(t) == IF t = AppT THEN StartAttempts ELSE ReconnectAttempts

\* ------------------------------------------- values of the HTTP layer
\* DR_TOKEN, and what request.headers.get("X-DR-TOKEN") gives.
NoToken == ""
Tokens == {NoToken, "s3"}
NoHeader == "<absent>"
Headers == {NoHeader, "s3", "bad"}

\* Text is a sequence of characters.  str.strip():
Strip(s) ==
  LET kept == {i \in 1..Len(s) : s[i] # " "}
      lo == CHOOSE i \in kept : \A j \in kept : i <= j
      hi == CHOOSE i \in kept : \A j \in kept : j <= i
  IN  IF kept = {} THEN <<>> ELSE SubSeq(s, lo, hi)

\* Storage URIs.  Uri0 is the development default that resolve_db_uri
\* persists on the first start.
Uri0 == <<"d">>
UriA == <<"a">>
UriPadded == <<" ", "b">>
NoHandle == <<>>           \* _client, _db, _dati is None
\* payload.get("uri") of PUT /admin/db: the key missing, or a text.
NoUri == [present |-> FALSE, text |-> <<>>]
UriInputs == {NoUri} \cup {[present |-> TRUE, text |-> u] :
                             u \in {<<>>, <<" ">>, UriA, UriPadded}}

\* JSON values beyond those of json_loads: Python's None, and {}.
JsonNone == [k |-> "none", items |-> <<>>, text |-> <<>>]
EmptyDict == [k |-> "dict", items |-> <<>>, text |-> <<>>]
One == [k |-> "num", items |-> <<>>, text |-> <<"1">>]
EmptyList == [k |-> "list", items |-> <<>>, text |-> <<>>]
ListOfOne == [k |-> "list", items |-> <<One>>, text |-> <<>>]

\* Python's truth value of a JSON value ("if not cmd").
Truthy(v) == v.k = "num" \/ (v.k \in {"list", "dict"} /\ v.items # <<>>)

\* json.dumps of a value.
RECURSIVE json_dumps(_)
json_dumps(v) ==
  IF v.k = "num" THEN v.text
  ELSE IF v.k = "none" THEN <<"null">>
  ELSE IF v.k = "dict" THEN <<"{", "}">>
  ELSE <<"[">> \o (IF v.items = <<>> THEN <<>> ELSE json_dumps(v.items[1])) \o <<"]">>

\* The message publish_cmd is given when it is called directly.
Msg0 == [cmd |-> One, params |-> EmptyDict, ts |-> 0, dr_id |-> "dr-001"]

\* json.dumps(message) of the command envelope: its members, each serialised.
dumps_message(m) ==
  [cmd |-> json_dumps(m.cmd), params |-> json_dumps(m.params),
   ts |-> m.ts, dr_id |-> m.dr_id]

\* A request thread that handles no request, and a thread that has not
\* answered yet.
NoReq ==
  [hdr |-> NoHeader, dev |-> "dev-7", cmd |-> JsonNone, params |-> JsonNone,
   body |-> <<>>, uri |-> NoUri, patch |-> <<>>, saved |-> Cfg0,
   loc |-> NoHandle, ok |-> FALSE, mqtt |-> FALSE, topic |-> <<>>,
   lock |-> NoThread, data |-> JsonNone, ts |-> 0]
NoResp == [code |-> 0]

\* ------------------------------------------------------------------- Init
\* DRMQTT.__init__: no client, not connected, the persisted config, a free lock.
InitMgr ==
  /\ cfg = Cfg0
  /\ client = None
  /\ connected = FALSE
  /\ lockOwner = NoThread
  /\ handles = <<>>
  /\ pc = [t \in Threads |-> IF t \in Tasks THEN "unborn" ELSE "idle"]
  /\ appOp = "start"
  /\ att = [t \in LockThreads |-> 0]
  /\ delay = DelayStart
  /\ newCfg = [w \in Admins |-> Cfg0]
  /\ nTasks = 0
  /\ calls = [app |-> 0, restart |-> 0, publish |-> 0, msgs |-> 0]
  /\ appRes = "none"
  /\ pubDev = "dev-7"
  /\ pubTopic = <<>>
  /\ pubRes = [k |-> "none", topic |-> <<>>]
  /\ outbox = {}
  /\ dati = <<>>
  /\ clock = 1
  /\ failedAt = {}
  /\ reachable \in SUBSET Endpoints
  /\ stopped = FALSE
  /\ lastCfg = Cfg0
  /\ held = [w \in Admins |-> NoThread]
  /\ pubMsg = Msg0

\* The HTTP layer with no request received: the files as create_app() leaves
\* them (resolve_mqtt, get_current_db_uri), the storage module as imported.
InitWeb ==
  /\ mqttFile = Cfg0
  /\ dbFile = Uri0
  /\ dbClient = NoHandle /\ dbDb = NoHandle /\ dbDati = NoHandle
  /\ route = [t \in WebThreads |-> "none"]
  /\ req = [t \in WebThreads |-> NoReq]
  /\ resp = [t \in WebThreads |-> NoResp]
  /\ commands = {}
  /\ nReq = 0

\* The manager driven by direct calls: no token, the storage server up.
Init == InitMgr /\ InitWeb /\ token = NoToken /\ dbUp = TRUE

\* --------------------------------------------- start(), stop(), _reconnect
\* The application thread calls start().
StartCall ==
  /\ pc[AppT] = "idle"
  /\ calls.app < MaxAppCalls
  /\ calls' = [calls EXCEPT !.app = @ + 1]
  /\ appOp' = "start"
  /\ appRes' = "none"
  /\ stopped' = FALSE
  /\ pc' = [pc EXCEPT ![AppT] = "acq"]
  /\ UNCHANGED <<webVars, cfg, client, connected, lockOwner, handles, att, delay, newCfg, nTasks, reachable, lastCfg, held, msgVars, pubVars>>

\* The application thread calls stop().
StopCall ==
  /\ pc[AppT] = "idle"
  /\ calls.app < MaxAppCalls
  /\ calls' = [calls EXCEPT !.app = @ + 1]
  /\ appOp' = "stop"
  /\ pc' = [pc EXCEPT ![AppT] = "acq"]
  /\ UNCHANGED <<webVars, cfg, client, connected, lockOwner, handles, att, delay, newCfg, nTasks, appRes, reachable, stopped, lastCfg, held,
                 msgVars, pubVars>>

\* Acquire without the guard: the lock is taken whoever owns it.
Acquire_NoGuard(t) ==
  /\ pc[t] = "acq"
  /\ lockOwner' = t
  /\ pc' = [pc EXCEPT ![t] = "chk"]
  /\ UNCHANGED <<webVars, cfg, client, connected, handles, appOp, att, delay,
                 newCfg, nTasks, calls, appRes, reachable, stopped, lastCfg,
                 held, msgVars, pubVars>>

\* "with self._lock:" of start(), stop() and _reconnect: blocks while another
\* thread owns the lock.
Acquire(t) ==
  /\ pc[t] = "acq"
  /\ lockOwner = NoThread
  /\ lockOwner' = t
  /\ pc' = [pc EXCEPT ![t] = "chk"]
  /\ UNCHANGED <<webVars, cfg, client, connected, handles, appOp, att, delay, newCfg, nTasks, calls, appRes, reachable, stopped, lastCfg,
                 held, msgVars, pubVars>>

\* CheckClient without the teardown branch: the held client is not stopped.
CheckClient_NoTeardown(t) ==
  /\ pc[t] = "chk"
  /\ pc' = [pc EXCEPT ![t] = IF t = AppT /\ appOp = "stop" THEN "rel" ELSE "new"]
  /\ UNCHANGED <<webVars, cfg, client, connected, lockOwner, handles, appOp, att, delay,
                 newCfg, nTasks, calls, appRes, reachable, stopped,
                 lastCfg, held, msgVars, pubVars>>

\* "if self.client is not None:".  stop() has nothing else to do when it is
\* None; start() and _reconnect go on to create the new client.
CheckClient(t) ==
  /\ pc[t] = "chk"
  /\ pc' = [pc EXCEPT ![t] =
              IF client # None THEN "td_stop"
              ELSE IF t = AppT /\ appOp = "stop" THEN "rel" ELSE "new"]
  /\ UNCHANGED <<webVars, cfg, client, connected, lockOwner, handles, appOp, att, delay,
                 newCfg, nTasks, calls, appRes, reachable, stopped,
                 lastCfg, held, msgVars, pubVars>>

\* "self.client.loop_stop(); self.client.disconnect()" in try/except pass.
\* loop_stop() joins the handle's loop thread; disconnect(), with no loop
\* thread left, writes the DISCONNECT itself, calls on_disconnect(rc = 0) on
\* this thread and closes the socket.
Teardown(t) ==
  /\ pc[t] = "td_stop"
  /\ IF client \in HandleIds
       THEN /\ handles' = [handles EXCEPT ![client] = ClosedHandle]
            /\ connected' = IF handles[client].sock # "none" THEN FALSE ELSE connected
       ELSE UNCHANGED <<handles, connected>>
  /\ pc' = [pc EXCEPT ![t] = "td_none"]
  /\ UNCHANGED <<webVars, cfg, client, lockOwner, appOp, att, delay, newCfg,
                 nTasks, calls, appRes, reachable, stopped, lastCfg, held,
                 msgVars, pubVars>>

\* "self.client = None"
DropClient(t) ==
  /\ pc[t] = "td_none"
  /\ client' = None
  /\ pc' = [pc EXCEPT ![t] = "td_flag"]
  /\ UNCHANGED <<webVars, cfg, connected, lockOwner, handles, appOp, att, delay, newCfg, nTasks, calls, appRes, reachable, stopped, lastCfg,
                 held, msgVars, pubVars>>

\* "self._connected = False"; stop() is then done.
ClearConnected(t) ==
  /\ pc[t] = "td_flag"
  /\ connected' = FALSE
  /\ pc' = [pc EXCEPT ![t] = IF t = AppT /\ appOp = "stop" THEN "rel" ELSE "new"]
  /\ UNCHANGED <<webVars, cfg, client, lockOwner, handles, appOp, att, delay, newCfg, nTasks, calls, appRes, reachable, stopped, lastCfg,
                 held, msgVars, pubVars>>

\* "self.client = mqtt.Client(...)", username_pw_set when a user name or a
\* password is held, the three callbacks; start() also sets delay = 0.5.
\* The loop that follows starts at attempt 1.
CreateClient(t) ==
  /\ pc[t] = "new"
  /\ LET creds == cfg.username # "" \/ cfg.password # ""
         u == IF creds THEN cfg.username ELSE ""
         p == IF creds THEN cfg.password ELSE ""
     IN  /\ handles' = Append(handles, NewHandle(u, p, t))
         /\ client' = Len(handles) + 1
  /\ att' = [att EXCEPT ![t] = 1]
  /\ delay' = IF t = AppT THEN DelayStart ELSE delay
  /\ pc' = [pc EXCEPT ![t] = "conn"]
  /\ UNCHANGED <<webVars, cfg, connected, lockOwner, appOp, newCfg, nTasks, calls,
                 appRes, reachable, stopped, lastCfg, held, msgVars, pubVars>>

\* "self.client.connect(self.host, self.port, keepalive=60)": the handle keeps
\* the host and port it is given; the call returns once the socket is open
\* and the CONNECT sent, and raises when the endpoint does not accept.
Connect(t) ==
  /\ pc[t] = "conn"
  /\ IF client \in HandleIds
       THEN LET ok == <<cfg.host, cfg.port>> \in reachable
            IN  /\ handles' = [handles EXCEPT ![client] =
                      [@ EXCEPT !.host = cfg.host, !.port = cfg.port,
                                !.sock = IF ok THEN "open" ELSE "none",
                                !.subs = {}, !.inbox = <<>>]]
                /\ pc' = [pc EXCEPT ![t] = IF ok THEN "lstart" ELSE "sleep"]
       ELSE /\ pc' = [pc EXCEPT ![t] = "sleep"]
            /\ UNCHANGED handles
  /\ UNCHANGED <<webVars, cfg, client, connected, lockOwner, appOp, att, delay, newCfg,
                 nTasks, calls, appRes, reachable, stopped, lastCfg, held,
                 msgVars, pubVars>>

\* "self.client.loop_start()" after a connect that succeeded, then
\* "return True" (start) or "return" (_reconnect).
LoopStart(t) ==
  /\ pc[t] = "lstart"
  /\ IF client \in HandleIds
       THEN handles' = [handles EXCEPT ![client] = [@ EXCEPT !.loop = TRUE]]
       ELSE UNCHANGED handles
  /\ appRes' = IF t = AppT THEN "True" ELSE appRes
  /\ pc' = [pc EXCEPT ![t] = "rel"]
  /\ UNCHANGED <<webVars, cfg, client, connected, lockOwner, appOp, att, delay, newCfg, nTasks, calls, reachable, stopped, lastCfg, held,
                 msgVars, pubVars>>

\* The argument of time.sleep on thread t: start()'s local delay, 1.0 in
\* _reconnect.
SleepDelay(t) == IF t = AppT THEN delay ELSE ReconnectSleep

\* start(): "time.sleep(delay); delay = min(delay * 1.5, 4.0)";
\* _reconnect: "time.sleep(1.0)".  Then the next attempt, or the end of the loop.
Sleep(t) ==
  /\ pc[t] = "sleep"
  /\ delay' = IF t = AppT THEN Min((delay * 3) \div 2, DelayCap) ELSE delay
  /\ IF att[t] < Budget(t)
       THEN /\ att' = [att EXCEPT ![t] = @ + 1]
            /\ pc' = [pc EXCEPT ![t] = "conn"]
       ELSE /\ pc' = [pc EXCEPT ![t] = "giveup"]
            /\ UNCHANGED att
  /\ UNCHANGED <<webVars, cfg, client, connected, lockOwner, handles, appOp, newCfg, nTasks, calls, appRes, reachable, stopped, lastCfg,
                 held, msgVars, pubVars>>

\* After the last attempt.  start(): log, "self.client.loop_start()" on the
\* handle that never connected, "return False".  _reconnect: log only.
GiveUp(t) ==
  /\ pc[t] = "giveup"
  /\ IF t = AppT /\ client \in HandleIds
       THEN handles' = [handles EXCEPT ![client] = [@ EXCEPT !.loop = TRUE]]
       ELSE UNCHANGED handles
  /\ appRes' = IF t = AppT THEN "False" ELSE appRes
  /\ pc' = [pc EXCEPT ![t] = "rel"]
  /\ UNCHANGED <<webVars, cfg, client, connected, lockOwner, appOp, att, delay, newCfg, nTasks, calls, reachable, stopped, lastCfg, held,
                 msgVars, pubVars>>

\* Lines 230-231: an exception other than a failed connect, raised while
\* _reconnect sets up the new client (lines 210-216), is caught and logged;
\* the function goes on to the end of the with block.
ReconnectError(t) ==
  /\ t \in Tasks
  /\ pc[t] = "new"
  /\ pc' = [pc EXCEPT ![t] = "rel"]
  /\ UNCHANGED <<webVars, cfg, client, connected, lockOwner, handles, appOp, att,
                 delay, newCfg, nTasks, calls, appRes, reachable, stopped,
                 lastCfg, held, msgVars, pubVars>>

\* Release that leaves the guard owned.
Release_KeepsGuard(t) ==
  /\ pc[t] = "rel"
  /\ pc' = [pc EXCEPT ![t] = IF t = AppT THEN "idle" ELSE "done"]
  /\ stopped' = IF t = AppT /\ appOp = "stop" THEN TRUE ELSE stopped
  /\ att' = [att EXCEPT ![t] = 0]
  /\ delay' = IF t = AppT THEN DelayStart ELSE delay
  /\ UNCHANGED <<webVars, cfg, client, connected, lockOwner, handles, appOp, newCfg,
                 nTasks, calls, appRes, reachable, lastCfg, held, msgVars, pubVars>>

\* The end of "with self._lock:": the call returns, the task's thread ends.
Release(t) ==
  /\ pc[t] = "rel"
  /\ lockOwner' = IF lockOwner = t THEN NoThread ELSE lockOwner
  /\ pc' = [pc EXCEPT ![t] = IF t = AppT THEN "idle" ELSE "done"]
  /\ stopped' = IF t = AppT /\ appOp = "stop" THEN TRUE ELSE stopped
  /\ att' = [att EXCEPT ![t] = 0]
  /\ delay' = IF t = AppT THEN DelayStart ELSE delay
  /\ UNCHANGED <<webVars, cfg, client, connected, handles, appOp, newCfg, nTasks, calls, appRes, reachable, lastCfg, held,
                 msgVars, pubVars>>

\* ----------------------------------------------------------- restart_with
\* The guard's owner seen at every step so far of w's call, else NoThread.
StillHeld(w) == IF held[w] = lockOwner THEN held[w] ELSE NoThread

\* restart_with(new_cfg), lines 179-183: the five locals.
RestartCall(w, c) ==
  /\ pc[w] = "idle"
  /\ calls.restart < MaxRestarts
  /\ calls' = [calls EXCEPT !.restart = @ + 1]
  /\ newCfg' = [newCfg EXCEPT ![w] =
        [host |-> Get(c, "host", cfg.host),
         port |-> Get(c, "port", cfg.port),
         base_topic |-> Get(c, "base_topic", cfg.base_topic),
         username |-> Get(c, "username", cfg.username),
         password |-> Get(c, "password", cfg.password)]]
  /\ lastCfg' = c
  /\ stopped' = FALSE
  /\ held' = [held EXCEPT ![w] = lockOwner]
  /\ pc' = [pc EXCEPT ![w] = "r_hostport"]
  /\ UNCHANGED <<webVars, cfg, client, connected, lockOwner, handles, appOp, att, delay,
                 nTasks, appRes, reachable, msgVars, pubVars>>

\* "self.host, self.port, self.base_topic = host, port, base"
RestartSetHost(w) ==
  /\ pc[w] = "r_hostport"
  /\ cfg' = [cfg EXCEPT !.host = newCfg[w].host, !.port = newCfg[w].port,
                        !.base_topic = newCfg[w].base_topic]
  /\ held' = [held EXCEPT ![w] = StillHeld(w)]
  /\ pc' = [pc EXCEPT ![w] = "r_creds"]
  /\ UNCHANGED <<webVars, client, connected, lockOwner, handles, appOp, att, delay,
                 newCfg, nTasks, calls, appRes, reachable, stopped,
                 lastCfg, msgVars, pubVars>>

\* "self.username, self.password = user, pwd"
RestartSetCreds(w) ==
  /\ pc[w] = "r_creds"
  /\ cfg' = [cfg EXCEPT !.username = newCfg[w].username,
                        !.password = newCfg[w].password]
  /\ held' = [held EXCEPT ![w] = StillHeld(w)]
  /\ pc' = [pc EXCEPT ![w] = "r_spawn"]
  /\ UNCHANGED <<webVars, client, connected, lockOwner, handles, appOp, att, delay,
                 newCfg, nTasks, calls, appRes, reachable, stopped,
                 lastCfg, msgVars, pubVars>>

\* ReconnectAsync that waits for the guard before it returns.
ReconnectAsync_Blocking(w) ==
  /\ pc[w] = "r_spawn"
  /\ lockOwner = NoThread
  /\ nTasks' = nTasks + 1
  /\ held' = [held EXCEPT ![w] = StillHeld(w)]
  /\ pc' = [pc EXCEPT ![w] = "idle", ![<<"task", nTasks + 1>>] = "acq"]
  /\ newCfg' = [newCfg EXCEPT ![w] = Cfg0]
  /\ UNCHANGED <<webVars, cfg, client, connected, lockOwner, handles, appOp, att, delay,
                 calls, appRes, reachable, stopped, lastCfg,
                 msgVars, pubVars>>

\* "self.reconnect_async()": threading.Thread(target=_reconnect).start(),
\* and restart_with returns.
ReconnectAsync(w) ==
  /\ pc[w] = "r_spawn"
  /\ nTasks' = nTasks + 1
  /\ held' = [held EXCEPT ![w] = StillHeld(w)]
  /\ pc' = [pc EXCEPT ![w] = "idle", ![<<"task", nTasks + 1>>] = "acq"]
  /\ newCfg' = [newCfg EXCEPT ![w] = Cfg0]
  /\ UNCHANGED <<webVars, cfg, client, connected, lockOwner, handles, appOp, att, delay,
                 calls, appRes, reachable, stopped, lastCfg,
                 msgVars, pubVars>>

\* One step of a restart_with call in progress on thread w.
RestartStep(w) == RestartSetHost(w) \/ RestartSetCreds(w) \/ ReconnectAsync(w)

\* ------------------------------------------------- the transport callbacks
\* _on_connect setting the flag whatever the return code.
on_connect_flag_AnyRc(rc) == TRUE

\* _on_connect(client, userdata, flags, rc): what it makes of self._connected
\* and of the handle's subscriptions.  The subscribe is at QoS 1.
on_connect_flag(rc) == rc = 0
on_connect_subs_FirstOnly(h, rc) ==
  IF rc = 0 /\ ~handles[h].loopTried
    THEN handles[h].subs \cup {[filter |-> telemetry_topic, qos |-> 1]}
    ELSE handles[h].subs
on_connect_subs(h, rc) ==
  IF rc = 0 THEN handles[h].subs \cup {[filter |-> telemetry_topic, qos |-> 1]}
            ELSE handles[h].subs

\* The loop thread of handle h reads the broker's CONNACK and calls
\* on_connect.  A refusal (rc # 0) is followed by the broker closing the
\* socket, and on_disconnect.
ConnAck(h, rc) ==
  /\ handles[h].open /\ handles[h].loop
  /\ handles[h].sock = "open"
  /\ connected' = on_connect_flag(rc)
  /\ handles' = [handles EXCEPT ![h] =
        [@ EXCEPT !.sock = IF rc = 0 THEN "acked" ELSE "none",
                  !.subs = on_connect_subs(h, rc)]]
  /\ UNCHANGED <<webVars, cfg, client, lockOwner, pc, appOp, att, delay, newCfg,
                 nTasks, calls, appRes, reachable, stopped, lastCfg, held,
                 msgVars, pubVars>>

\* The connection of handle h drops; its loop thread calls
\* _on_disconnect(rc # 0): "self._connected = False".
ConnDrop(h) ==
  /\ handles[h].open /\ handles[h].loop
  /\ handles[h].sock \in {"open", "acked"}
  /\ connected' = FALSE
  /\ handles' = [handles EXCEPT ![h] =
        [@ EXCEPT !.sock = "none", !.subs = {}, !.inbox = <<>>]]
  /\ UNCHANGED <<webVars, cfg, client, lockOwner, pc, appOp, att, delay, newCfg,
                 nTasks, calls, appRes, reachable, stopped, lastCfg, held,
                 msgVars, pubVars>>

\* The loop thread started by loop_start() finds its handle without a
\* socket and reconnects it, to the host and port the handle was last given
\* (the transport's own retry; a clean session, so without subscriptions).
LoopReconnect(h) ==
  /\ handles[h].open /\ handles[h].loop
  /\ handles[h].sock = "none"
  /\ handles[h].host # NoHost
  /\ handles' = [handles EXCEPT ![h] =
        [@ EXCEPT !.loopTried = TRUE,
                  !.sock = IF <<handles[h].host, handles[h].port>> \in reachable
                             THEN "open" ELSE "none"]]
  /\ UNCHANGED <<webVars, cfg, client, connected, lockOwner, pc, appOp, att, delay,
                 newCfg, nTasks, calls, appRes, reachable, stopped,
                 lastCfg, held, msgVars, pubVars>>

\* -------------------------------------------------------------- _on_message
Bytes == {"1", "[", "]", "x80"}      \* "x80" is no valid UTF-8 on its own

\* msg.payload.decode("utf-8") raises on a byte that is not UTF-8.
Utf8Ok(b) == \A i \in 1..Len(b) : b[i] # "x80"
IsKept(x) == x # "x80"
\* msg.payload.decode("utf-8", errors="ignore")
DecodeIgnore(b) == SelectSeq(b, IsKept)

\* json.loads on the texts over "1", "[", "]": a number is a run of digits,
\* a list is "[]" or "[" value "]"; anything else is a JSONDecodeError.
JsonFail == [k |-> "fail", items |-> <<>>, text |-> <<>>]
IsNumber(s) == s # <<>> /\ \A i \in 1..Len(s) : s[i] = "1"
RECURSIVE json_loads(_)
json_loads(s) ==
  IF IsNumber(s) THEN [k |-> "num", items |-> <<>>, text |-> s]
  ELSE IF s = <<"{", "}">> THEN [k |-> "dict", items |-> <<>>, text |-> <<>>]
  ELSE IF s = <<"null">> THEN [k |-> "none", items |-> <<>>, text |-> <<>>]
  ELSE IF Len(s) >= 2 /\ s[1] = "[" /\ s[Len(s)] = "]"
    THEN LET inner == SubSeq(s, 2, Len(s) - 1)
         IN  IF inner = <<>> THEN [k |-> "list", items |-> <<>>, text |-> <<>>]
             ELSE LET v == json_loads(inner)
                  IN  IF v.k = "fail" THEN JsonFail
                      ELSE [k |-> "list", items |-> <<v>>, text |-> <<>>]
    ELSE JsonFail

\* Lines 85-89: the parsed document, or {"raw": <payload, bad bytes ignored>}.
PayloadData(b) ==
  IF Utf8Ok(b) /\ json_loads(b).k # "fail" THEN json_loads(b)
  ELSE [k |-> "raw", items |-> <<>>, text |-> DecodeIgnore(b)]

\* str.split("/")
RECURSIVE Split(_)
Split(s) ==
  IF \A i \in 1..Len(s) : s[i] # "/" THEN <<s>>
  ELSE LET i == CHOOSE j \in 1..Len(s) :
                  s[j] = "/" /\ \A k \in 1..(j - 1) : s[k] # "/"
       IN  <<SubSeq(s, 1, i - 1)>> \o Split(SubSeq(s, i + 1, Len(s)))

\* DeviceIdOf taking the last segment, parts[-1].
DeviceIdOf_Last(topic) ==
  LET parts == Split(topic)
  IN  IF Len(parts) >= 2 THEN parts[Len(parts)] ELSE <<"unknown">>

\* "parts[-2] if len(parts) >= 2 else 'unknown'"
DeviceIdOf(topic) ==
  LET parts == Split(topic)
  IN  IF Len(parts) >= 2 THEN parts[Len(parts) - 1] ELSE <<"unknown">>

\* Lines 94-101: the document for message m received at time now.
TelemetryDoc(m, now) ==
  [ts |-> now, device_id |-> DeviceIdOf(m.topic), source |-> "mqtt",
   data |-> PayloadData(m.payload), topic |-> m.topic, dr_id |-> "dr-001"]

\* A subscription filter matches a topic level by level, "+" matching any
\* one level.
Matches(filter, topic) ==
  LET f == Split(filter)
      t == Split(topic)
  IN  /\ Len(f) = Len(t)
      /\ \A i \in 1..Len(f) : f[i] = <<"+">> \/ f[i] = t[i]

Devices == {"dev-7"}
DeliveredTopics ==
  {c.base_topic \o <<"/", d, "/", "telemetry">> : c \in Snapshots, d \in Devices}
DeliveredPayloads == {<<"[", "1", "]">>, <<"]", "x80">>}

\* The broker sends the connected, subscribed handle h a message on a topic
\* that one of its subscriptions matches.
BrokerDeliver(h, m) ==
  /\ handles[h].open /\ handles[h].sock = "acked"
  /\ calls.msgs < MaxMsgs
  /\ \E sub \in handles[h].subs : Matches(sub.filter, m.topic)
  /\ calls' = [calls EXCEPT !.msgs = @ + 1]
  /\ handles' = [handles EXCEPT ![h] = [@ EXCEPT !.inbox = Append(@, m)]]
  /\ UNCHANGED <<webVars, cfg, client, connected, lockOwner, pc, appOp, att, delay,
                 newCfg, nTasks, appRes, reachable, stopped, lastCfg,
                 held, msgVars, pubVars>>

\* OnMessage without the try/except around insert_one: the exception leaves
\* the callback and ends the loop thread.
OnMessage_Raises(h, stored) ==
  /\ handles[h].open /\ handles[h].loop
  /\ handles[h].inbox # <<>>
  /\ LET doc == TelemetryDoc(Head(handles[h].inbox), clock)
     IN  IF stored
           THEN dati' = Append(dati, doc) /\ UNCHANGED failedAt
           ELSE failedAt' = failedAt \cup {clock} /\ UNCHANGED dati
  /\ clock' = clock + 1
  /\ handles' = [handles EXCEPT ![h] =
        [@ EXCEPT !.inbox = Tail(@), !.loop = stored]]
  /\ UNCHANGED <<webVars, cfg, client, connected, lockOwner, pc, appOp, att, delay,
                 newCfg, nTasks, calls, appRes, reachable, stopped,
                 lastCfg, held, pubVars>>

\* OnMessage taking the message received last instead of the oldest.
OnMessage_NewestFirst(h, stored) ==
  /\ handles[h].open /\ handles[h].loop
  /\ handles[h].inbox # <<>>
  /\ LET doc == TelemetryDoc(handles[h].inbox[Len(handles[h].inbox)], clock)
     IN  IF stored
           THEN dati' = Append(dati, doc) /\ UNCHANGED failedAt
           ELSE failedAt' = failedAt \cup {clock} /\ UNCHANGED dati
  /\ clock' = clock + 1
  /\ handles' = [handles EXCEPT ![h] =
        [@ EXCEPT !.inbox = SubSeq(@, 1, Len(@) - 1)]]
  /\ UNCHANGED <<webVars, cfg, client, connected, lockOwner, pc, appOp, att, delay,
                 newCfg, nTasks, calls, appRes, reachable, stopped,
                 lastCfg, held, pubVars>>

\* The loop thread of handle h calls _on_message on the next message it
\* received.  insert_one succeeds, or raises and is logged (lines 102-105).
OnMessage(h, stored) ==
  /\ handles[h].open /\ handles[h].loop
  /\ handles[h].inbox # <<>>
  /\ LET doc == TelemetryDoc(Head(handles[h].inbox), clock)
     IN  IF stored
           THEN dati' = Append(dati, doc) /\ UNCHANGED failedAt
           ELSE failedAt' = failedAt \cup {clock} /\ UNCHANGED dati
  /\ clock' = clock + 1
  /\ handles' = [handles EXCEPT ![h] = [@ EXCEPT !.inbox = Tail(@)]]
  /\ UNCHANGED <<webVars, cfg, client, connected, lockOwner, pc, appOp, att, delay,
                 newCfg, nTasks, calls, appRes, reachable, stopped,
                 lastCfg, held, pubVars>>

\* ------------------------------------------------------------- publish_cmd
Result(kind, topic) == [k |-> kind, topic |-> topic]

\* A request thread calls publish_cmd(device_id, message).
PublishCall(d) ==
  /\ pc[PubT] = "idle"
  /\ calls.publish < MaxPublishes
  /\ calls' = [calls EXCEPT !.publish = @ + 1]
  /\ pubDev' = d
  /\ pubTopic' = <<>>
  /\ pubRes' = Result("none", <<>>)
  /\ pc' = [pc EXCEPT ![PubT] = "p_check"]
  /\ UNCHANGED <<webVars, cfg, client, connected, lockOwner, handles, appOp, att, delay,
                 newCfg, nTasks, appRes, outbox, reachable, stopped,
                 lastCfg, held, msgVars>>

\* PublishCheck without the check.
PublishCheck_NoCheck ==
  /\ pc[PubT] = "p_check"
  /\ pc' = [pc EXCEPT ![PubT] = "p_topic"]
  /\ UNCHANGED <<webVars, cfg, client, connected, lockOwner, handles, appOp, att, delay,
                 newCfg, nTasks, calls, appRes, pubDev, pubTopic, pubRes,
                 outbox, reachable, stopped, lastCfg, held, msgVars>>

\* "if not self.client: raise RuntimeError('MQTT client not started')"
PublishCheck ==
  /\ pc[PubT] = "p_check"
  /\ IF client = None
       THEN /\ pubRes' = Result("NotReady", <<>>)
            /\ pc' = [pc EXCEPT ![PubT] = "idle"]
       ELSE /\ pc' = [pc EXCEPT ![PubT] = "p_topic"]
            /\ UNCHANGED pubRes
  /\ UNCHANGED <<webVars, cfg, client, connected, lockOwner, handles, appOp, att, delay,
                 newCfg, nTasks, calls, appRes, pubDev, pubTopic, outbox,
                 reachable, stopped, lastCfg, held, msgVars>>

\* "topic = self.cmd_topic(device_id)"
PublishTopic ==
  /\ pc[PubT] = "p_topic"
  /\ pubTopic' = cmd_topic(pubDev)
  /\ pc' = [pc EXCEPT ![PubT] = "p_publish"]
  /\ UNCHANGED <<webVars, cfg, client, connected, lockOwner, handles, appOp, att, delay,
                 newCfg, nTasks, calls, appRes, pubDev, pubRes, outbox,
                 reachable, stopped, lastCfg, held, msgVars>>

\* "info = self.client.publish(topic, json.dumps(message), qos=1, retain=False)"
\* reads self.client again: on None the attribute access raises
\* AttributeError.  On a handle without a socket publish() returns
\* rc = MQTT_ERR_NO_CONN and the "info.wait_for_publish(timeout=3.0)" that
\* follows raises RuntimeError('Message publish failed').
PublishSend ==
  /\ pc[PubT] = "p_publish"
  /\ IF client \notin HandleIds
       THEN /\ pubRes' = Result("AttributeError", <<>>)
            /\ pc' = [pc EXCEPT ![PubT] = "idle"]
            /\ UNCHANGED outbox
       ELSE IF handles[client].sock = "none"
         THEN /\ pubRes' = Result("PublishFailed", <<>>)
              /\ pc' = [pc EXCEPT ![PubT] = "idle"]
              /\ UNCHANGED outbox
         ELSE /\ outbox' = outbox \cup
                    {[handle |-> client, topic |-> pubTopic, device |-> pubDev,
                      payload |-> dumps_message(pubMsg),
                      qos |-> 1, retain |-> FALSE]}
              /\ pc' = [pc EXCEPT ![PubT] = "p_wait"]
              /\ UNCHANGED pubRes
  /\ UNCHANGED <<webVars, cfg, client, connected, lockOwner, handles, appOp, att, delay,
                 newCfg, nTasks, calls, appRes, pubDev, pubTopic,
                 reachable, stopped, lastCfg, held, msgVars>>

\* "info.wait_for_publish(timeout=3.0)": the acknowledgment arrives or the
\* wait times out (a warning is logged); "return topic" either way.
PublishWait(acked) ==
  /\ pc[PubT] = "p_wait"
  /\ pubRes' = Result(IF acked THEN "published" ELSE "unconfirmed", pubTopic)
  /\ pc' = [pc EXCEPT ![PubT] = "idle"]
  /\ UNCHANGED <<webVars, cfg, client, connected, lockOwner, handles, appOp, att, delay,
                 newCfg, nTasks, calls, appRes, pubDev, pubTopic, outbox,
                 reachable, stopped, lastCfg, held, msgVars>>

\* ---------------------------------------------------------- storage (db.py)
\* What is unchanged by a step that touches neither the manager nor its
\* messages.
mgrVars == <<cfg, client, connected, lockOwner, handles, pc, appOp, att,
             delay, newCfg, nTasks, calls, appRes, reachable, stopped,
             lastCfg, held>>

\* get_current_db_uri(): the persisted URI, or on an empty file the default,
\* which resolve_db_uri then persists.
CurrentDbUri == IF dbFile # <<>> THEN dbFile ELSE Uri0

\* Where a request thread goes on once it has the handle it asked for:
\* ingest has called dati_collection(), health and the command log get_db().
AfterDb(t) == IF t = IngT THEN "g_col" ELSE IF t = HealthT THEN "h_ping" ELSE "c_log"

\* dati_collection(): "if _dati is None", else "return _dati".
GetDati(t) ==
  /\ route[t] = "g_dati"
  /\ IF dbDati # NoHandle
       THEN /\ req' = [req EXCEPT ![t].loc = dbDati]
            /\ route' = [route EXCEPT ![t] = "i_insert"]
       ELSE /\ route' = [route EXCEPT ![t] = "g_db"]
            /\ UNCHANGED req
  /\ UNCHANGED <<mgrVars, msgVars, pubVars, token, mqttFile, dbFile, dbClient,
                 dbDb, dbDati, dbUp, resp, commands, nReq, pubMsg>>

\* get_db(): "if _db is None", else "return _db".
GetDb(t) ==
  /\ route[t] = "g_db"
  /\ IF dbDb # NoHandle
       THEN /\ req' = [req EXCEPT ![t].loc = dbDb]
            /\ route' = [route EXCEPT ![t] = AfterDb(t)]
       ELSE /\ route' = [route EXCEPT ![t] = "g_cli"]
            /\ UNCHANGED req
  /\ UNCHANGED <<mgrVars, msgVars, pubVars, token, mqttFile, dbFile, dbClient,
                 dbDb, dbDati, dbUp, resp, commands, nReq, pubMsg>>

\* "cli = get_client()": "if _client is None: _client =
\* MongoClient(get_current_db_uri())", "return _client".
GetClient(t) ==
  /\ route[t] = "g_cli"
  /\ dbClient' = IF dbClient = NoHandle THEN CurrentDbUri ELSE dbClient
  /\ dbFile' = IF dbClient = NoHandle THEN CurrentDbUri ELSE dbFile
  /\ req' = [req EXCEPT ![t].loc = dbClient']
  /\ route' = [route EXCEPT ![t] = "g_setdb"]
  /\ UNCHANGED <<mgrVars, msgVars, pubVars, token, mqttFile, dbDb, dbDati,
                 dbUp, resp, commands, nReq, pubMsg>>

\* "db = cli.get_default_database() ...; _db = db; return _db"
SetDb(t) ==
  /\ route[t] = "g_setdb"
  /\ dbDb' = req[t].loc
  /\ route' = [route EXCEPT ![t] = AfterDb(t)]
  /\ UNCHANGED <<mgrVars, msgVars, pubVars, token, mqttFile, dbFile, dbClient,
                 dbDati, dbUp, req, resp, commands, nReq, pubMsg>>

\* "col = _ensure_collection('dati'); col.create_index(...)": two round
\* trips to the server, which raise when it does not answer; the exception
\* leaves dati_collection() and the route, and Flask answers 500.
EnsureCollection(t) ==
  /\ route[t] = "g_col"
  /\ IF dbUp
       THEN /\ route' = [route EXCEPT ![t] = "g_setdati"]
            /\ UNCHANGED <<req, resp>>
       ELSE /\ route' = [route EXCEPT ![t] = "none"]
            /\ req' = [req EXCEPT ![t] = NoReq]
            /\ resp' = [resp EXCEPT ![t] =
                  [code |-> 500, status |-> "error",
                   of |-> [hdr |-> req[t].hdr, dev |-> req[t].dev, body |-> req[t].body],
                   db |-> req[t].loc]]
  /\ UNCHANGED <<mgrVars, msgVars, pubVars, token, mqttFile, dbFile, dbClient,
                 dbDb, dbDati, dbUp, commands, nReq, pubMsg>>

\* "_dati = col; return _dati"
SetDati(t) ==
  /\ route[t] = "g_setdati"
  /\ dbDati' = req[t].loc
  /\ route' = [route EXCEPT ![t] = "i_insert"]
  /\ UNCHANGED <<mgrVars, msgVars, pubVars, token, mqttFile, dbFile, dbClient,
                 dbDb, dbUp, req, resp, commands, nReq, pubMsg>>

\* One step of get_db() on request thread t, and one of what
\* dati_collection() does besides.
DbStep(t) == GetDb(t) \/ GetClient(t) \/ SetDb(t)
DatiStep(t) == GetDati(t) \/ EnsureCollection(t) \/ SetDati(t)

\* ------------------------------------------------------ routes (routes.py)
\* _require_token() letting a request without the header through.
require_token_AbsentOk(hdr) == token # NoToken /\ hdr # NoHeader /\ hdr # token

\* _require_token(): a response is returned, which the route returns in
\* turn, when a token is configured and the header is not that token.
require_token(hdr) == token # NoToken /\ hdr # token
Forbidden == [code |-> 403, status |-> "forbidden"]

\* What a route leaves alone when it only answers.
storeVars == <<dbFile, dbClient, dbDb, dbDati, dbUp, commands>>

CmdDevices == {"dev-7", "dev-8"}
CmdValues == {JsonNone, EmptyList, ListOfOne}     \* body.get("cmd"): missing, [], [1]
ParamValues == {JsonNone, ListOfOne}              \* "params" missing, or [1]

\* POST /devices/<device_id>/commands, lines 61-82: the token, the body, the
\* envelope, and the call of publish_cmd(device_id, msg).  MQTT_OBJ is set
\* by create_app() before the first request, so line 79 never answers.
PostCommand(hdr, d, cmd, params) ==
  /\ route[PubT] = "none" /\ pc[PubT] = "idle"
  /\ calls.publish < MaxPublishes
  /\ IF require_token(hdr)
       THEN /\ resp' = [resp EXCEPT ![PubT] = Forbidden]
            /\ UNCHANGED <<route, req, pubMsg, pubDev, pubTopic, pubRes, pc, calls>>
       ELSE IF ~Truthy(cmd)
         THEN /\ resp' = [resp EXCEPT ![PubT] = [code |-> 400, status |-> "error"]]
              /\ UNCHANGED <<route, req, pubMsg, pubDev, pubTopic, pubRes, pc, calls>>
         ELSE /\ req' = [req EXCEPT ![PubT] =
                    [NoReq EXCEPT !.dev = d, !.cmd = cmd,
                                  !.params = IF params = JsonNone THEN EmptyDict
                                             ELSE params]]
              /\ pubMsg' = [cmd |-> cmd,
                            params |-> IF params = JsonNone THEN EmptyDict ELSE params,
                            ts |-> clock, dr_id |-> "dr-001"]
              /\ pubDev' = d
              /\ pubTopic' = <<>>
              /\ pubRes' = Result("none", <<>>)
              /\ calls' = [calls EXCEPT !.publish = @ + 1]
              /\ pc' = [pc EXCEPT ![PubT] = "p_check"]
              /\ route' = [route EXCEPT ![PubT] = "c_pub"]
              /\ resp' = [resp EXCEPT ![PubT] = NoResp]
  /\ UNCHANGED <<cfg, client, connected, lockOwner, handles, appOp, att, delay,
                 newCfg, nTasks, appRes, outbox, reachable, stopped, lastCfg,
                 held, msgVars, token, mqttFile, storeVars, nReq>>

\* Line 82 has returned, or raised: publish_cmd's exception is not caught by
\* the route, and Flask answers an exception of a view with 500 Internal
\* Server Error.
PostCommandReturn ==
  /\ route[PubT] = "c_pub" /\ pc[PubT] = "idle"
  /\ IF pubRes.k \in {"published", "unconfirmed"}
       THEN /\ req' = [req EXCEPT ![PubT].topic = pubRes.topic]
            /\ route' = [route EXCEPT ![PubT] = "g_db"]
            /\ UNCHANGED resp
       ELSE /\ req' = [req EXCEPT ![PubT] = NoReq]
            /\ route' = [route EXCEPT ![PubT] = "none"]
            /\ resp' = [resp EXCEPT ![PubT] = [code |-> 500, status |-> pubRes.k]]
  /\ UNCHANGED <<mgrVars, msgVars, pubVars, token, mqttFile, storeVars, nReq, pubMsg>>

\* Lines 85-93: the command log, whose failure is ignored, and the response.
PostCommandLog ==
  /\ route[PubT] = "c_log"
  /\ commands' = IF dbUp
                   THEN commands \cup
                        {[db |-> req[PubT].loc, device_id |-> req[PubT].dev,
                          command |-> pubMsg, topic |-> req[PubT].topic]}
                   ELSE commands
  /\ resp' = [resp EXCEPT ![PubT] =
        [code |-> 200, status |-> "ok", topic |-> req[PubT].topic,
         command |-> pubMsg]]
  /\ req' = [req EXCEPT ![PubT] = NoReq]
  /\ route' = [route EXCEPT ![PubT] = "none"]
  /\ UNCHANGED <<mgrVars, msgVars, pubVars, token, mqttFile, dbFile, dbClient,
                 dbDb, dbDati, dbUp, nReq, pubMsg>>

\* A request POST /devices/<id>/commands arrives; one step of the thread
\* that handles it.
CommandRequest ==
  \E hdr \in Headers, d \in CmdDevices, cmd \in CmdValues, params \in ParamValues :
     PostCommand(hdr, d, cmd, params)
CommandStep ==
  \/ PublishCheck \/ PublishTopic \/ PublishSend
  \/ \E acked \in BOOLEAN : PublishWait(acked)
  \/ PostCommandReturn
  \/ DbStep(PubT)
  \/ PostCommandLog

\* GET /health arrives: the route asks for the database, "get_db()".
HealthCall ==
  /\ route[HealthT] = "none"
  /\ nReq < MaxRequests
  /\ nReq' = nReq + 1
  /\ route' = [route EXCEPT ![HealthT] = "g_db"]
  /\ resp' = [resp EXCEPT ![HealthT] = NoResp]
  /\ UNCHANGED <<mgrVars, msgVars, pubVars, token, mqttFile, storeVars, req, pubMsg>>

\* ".command('ping')" in try/except: db_ok is whether the server answered.
HealthPing ==
  /\ route[HealthT] = "h_ping"
  /\ req' = [req EXCEPT ![HealthT].ok = dbUp]
  /\ route' = [route EXCEPT ![HealthT] = "h_mqtt"]
  /\ UNCHANGED <<mgrVars, msgVars, pubVars, token, mqttFile, storeVars, resp,
                 nReq, pubMsg>>

\* IsConnected taking the manager's lock for the read.
IsConnected_Locked ==
  /\ route[HealthT] = "h_mqtt"
  /\ lockOwner = NoThread
  /\ req' = [req EXCEPT ![HealthT].mqtt = connected, ![HealthT].lock = lockOwner]
  /\ route' = [route EXCEPT ![HealthT] = "h_resp"]
  /\ UNCHANGED <<mgrVars, msgVars, pubVars, token, mqttFile, storeVars, resp,
                 nReq, pubMsg>>

\* "mqtt_ok = bool(mqtt_obj and mqtt_obj.is_connected())", is_connected()
\* being "return self._connected".  lock keeps who owned the manager's lock
\* at that moment.
IsConnected ==
  /\ route[HealthT] = "h_mqtt"
  /\ req' = [req EXCEPT ![HealthT].mqtt = connected, ![HealthT].lock = lockOwner]
  /\ route' = [route EXCEPT ![HealthT] = "h_resp"]
  /\ UNCHANGED <<mgrVars, msgVars, pubVars, token, mqttFile, storeVars, resp,
                 nReq, pubMsg>>

\* HealthRespond with "ok" as soon as one of the two flags is true.
HealthRespond_Either ==
  /\ route[HealthT] = "h_resp"
  /\ resp' = [resp EXCEPT ![HealthT] =
        [code |-> 200,
         status |-> IF req[HealthT].ok \/ req[HealthT].mqtt THEN "ok" ELSE "degraded",
         db |-> req[HealthT].ok, mqtt |-> req[HealthT].mqtt,
         lock |-> req[HealthT].lock]]
  /\ req' = [req EXCEPT ![HealthT] = NoReq]
  /\ route' = [route EXCEPT ![HealthT] = "none"]
  /\ UNCHANGED <<mgrVars, msgVars, pubVars, token, mqttFile, storeVars, nReq, pubMsg>>

\* "return jsonify({...})", lines 51-57.  The response keeps, besides its
\* members, who owned the lock when is_connected() was read.
HealthRespond ==
  /\ route[HealthT] = "h_resp"
  /\ resp' = [resp EXCEPT ![HealthT] =
        [code |-> 200,
         status |-> IF req[HealthT].ok /\ req[HealthT].mqtt THEN "ok" ELSE "degraded",
         db |-> req[HealthT].ok, mqtt |-> req[HealthT].mqtt,
         lock |-> req[HealthT].lock]]
  /\ req' = [req EXCEPT ![HealthT] = NoReq]
  /\ route' = [route EXCEPT ![HealthT] = "none"]
  /\ UNCHANGED <<mgrVars, msgVars, pubVars, token, mqttFile, storeVars, nReq, pubMsg>>

\* One step of the request thread of GET /health.
HealthStep ==
  \/ HealthCall \/ DbStep(HealthT) \/ HealthPing \/ IsConnected \/ HealthRespond

\* request.get_json(silent=True): None without a body, on bytes that are
\* no UTF-8 and on text that is no JSON; else the parsed value, which for
\* the text "null" is None as well.
get_json(b) ==
  IF b = <<>> \/ ~Utf8Ok(b) \/ json_loads(b).k = "fail" THEN JsonNone
  ELSE json_loads(b)

IngestBodies == {<<>>, <<"x80">>, <<"]">>, <<"null">>, <<"1">>, <<"[", "1", "]">>}

\* IngestDoc with the source of the MQTT path.
IngestDoc_SourceMqtt(t) ==
  [ts |-> req[t].ts, device_id |-> req[t].dev, source |-> "mqtt",
   data |-> req[t].data, dr_id |-> "dr-001"]

\* Lines 105-111: the document of the request thread t handles.
IngestDoc(t) ==
  [ts |-> req[t].ts, device_id |-> req[t].dev, source |-> "http",
   data |-> req[t].data, dr_id |-> "dr-001"]

\* POST /ingest/<device_id>, lines 97-112: the token, the body, the
\* document, and the call of dati_collection().  A response keeps, under
\* "of", the request it answers.
PostIngest(hdr, d, body) ==
  /\ route[IngT] = "none"
  /\ nReq < MaxRequests
  /\ nReq' = nReq + 1
  /\ LET of == [hdr |-> hdr, dev |-> d, body |-> body]
     IN  IF require_token(hdr)
           THEN /\ resp' = [resp EXCEPT ![IngT] = Forbidden @@ [of |-> of]]
                /\ UNCHANGED <<route, req>>
           ELSE IF get_json(body) = JsonNone
             THEN /\ resp' = [resp EXCEPT ![IngT] =
                        [code |-> 400, status |-> "error", of |-> of]]
                  /\ UNCHANGED <<route, req>>
             ELSE /\ req' = [req EXCEPT ![IngT] =
                        [NoReq EXCEPT !.hdr = hdr, !.dev = d, !.body = body,
                                      !.data = get_json(body), !.ts = clock]]
                  /\ route' = [route EXCEPT ![IngT] = "g_dati"]
                  /\ resp' = [resp EXCEPT ![IngT] = NoResp]
  /\ UNCHANGED <<mgrVars, msgVars, pubVars, token, mqttFile, storeVars, pubMsg>>

\* ".insert_one(doc)" and "return jsonify({'status': 'ok'})"; when the
\* server does not answer insert_one raises, and Flask answers 500.  The
\* response keeps, under "db", the URI of the collection used.
IngestInsert ==
  /\ route[IngT] = "i_insert"
  /\ LET of == [hdr |-> req[IngT].hdr, dev |-> req[IngT].dev, body |-> req[IngT].body]
     IN  IF dbUp
           THEN /\ dati' = Append(dati, IngestDoc(IngT))
                /\ resp' = [resp EXCEPT ![IngT] =
                      [code |-> 200, status |-> "ok", of |-> of, db |-> req[IngT].loc]]
           ELSE /\ resp' = [resp EXCEPT ![IngT] =
                      [code |-> 500, status |-> "error", of |-> of, db |-> req[IngT].loc]]
                /\ UNCHANGED dati
  /\ req' = [req EXCEPT ![IngT] = NoReq]
  /\ route' = [route EXCEPT ![IngT] = "none"]
  /\ UNCHANGED <<mgrVars, pubVars, clock, failedAt, token, mqttFile, storeVars,
                 nReq, pubMsg>>

\* A request POST /ingest/<id> arrives; one step of the thread that handles it.
IngestRequest ==
  \E hdr \in Headers, d \in CmdDevices, body \in IngestBodies : PostIngest(hdr, d, body)
IngestStep == DatiStep(IngT) \/ DbStep(IngT) \/ IngestInsert

\* GET /admin/db: the persisted URI, or when the file is empty the default,
\* which get_current_db_uri persists.
GetDbUri(hdr) ==
  /\ route[DbT] = "none"
  /\ nReq < MaxRequests
  /\ nReq' = nReq + 1
  /\ IF require_token(hdr)
       THEN /\ resp' = [resp EXCEPT ![DbT] = Forbidden @@ [kind |-> "get"]]
            /\ UNCHANGED dbFile
       ELSE /\ resp' = [resp EXCEPT ![DbT] =
                  [code |-> 200, kind |-> "get", uri |-> CurrentDbUri]]
            /\ dbFile' = CurrentDbUri
  /\ UNCHANGED <<mgrVars, msgVars, pubVars, token, mqttFile, dbClient, dbDb,
                 dbDati, dbUp, commands, route, req, pubMsg>>

\* update_db_uri(new_uri), once the URI is known not to be empty:
\* _write_text writes "(content or '').strip()".
update_db_uri(new_uri) == Strip(new_uri.text)

\* PUT /admin/db, lines 130-137: the token, payload.get("uri"), and
\* update_db_uri, which raises ValueError on a missing or blank URI (the
\* route answers 400) and else writes the file.
PutDbUri(hdr, u) ==
  /\ route[DbT] = "none"
  /\ nReq < MaxRequests
  /\ nReq' = nReq + 1
  /\ IF require_token(hdr)
       THEN /\ resp' = [resp EXCEPT ![DbT] = Forbidden @@ [kind |-> "put", of |-> u]]
            /\ UNCHANGED <<dbFile, route, req>>
       ELSE IF ~u.present \/ Strip(u.text) = <<>>
         THEN /\ resp' = [resp EXCEPT ![DbT] =
                    [code |-> 400, kind |-> "put", status |-> "error", of |-> u]]
              /\ UNCHANGED <<dbFile, route, req>>
         ELSE /\ dbFile' = update_db_uri(u)
              /\ req' = [req EXCEPT ![DbT] = [NoReq EXCEPT !.hdr = hdr, !.uri = u]]
              /\ route' = [route EXCEPT ![DbT] = "d_client"]
              /\ resp' = [resp EXCEPT ![DbT] = NoResp]
  /\ UNCHANGED <<mgrVars, msgVars, pubVars, token, mqttFile, dbClient, dbDb,
                 dbDati, dbUp, commands, pubMsg>>

\* rebind_after_config_change(): "_client.close()" and "_client = None"
RebindClient ==
  /\ route[DbT] = "d_client"
  /\ dbClient' = NoHandle
  /\ route' = [route EXCEPT ![DbT] = "d_db"]
  /\ UNCHANGED <<mgrVars, msgVars, pubVars, token, mqttFile, dbFile, dbDb,
                 dbDati, dbUp, commands, req, resp, nReq, pubMsg>>

\* "_db = None"
RebindDb ==
  /\ route[DbT] = "d_db"
  /\ dbDb' = NoHandle
  /\ route' = [route EXCEPT ![DbT] = "d_dati"]
  /\ UNCHANGED <<mgrVars, msgVars, pubVars, token, mqttFile, dbFile, dbClient,
                 dbDati, dbUp, commands, req, resp, nReq, pubMsg>>

\* "_dati = None", and the route's "return jsonify({'status': 'ok', 'uri':
\* new_uri})".
RebindDati ==
  /\ route[DbT] = "d_dati"
  /\ dbDati' = NoHandle
  /\ resp' = [resp EXCEPT ![DbT] =
        [code |-> 200, kind |-> "put", status |-> "ok", uri |-> req[DbT].uri.text,
         of |-> req[DbT].uri]]
  /\ req' = [req EXCEPT ![DbT] = NoReq]
  /\ route' = [route EXCEPT ![DbT] = "none"]
  /\ UNCHANGED <<mgrVars, msgVars, pubVars, token, mqttFile, dbFile, dbClient,
                 dbDb, dbUp, commands, nReq, pubMsg>>

\* A request to /admin/db arrives; one step of the thread that handles it.
DbAdminRequest ==
  \/ \E hdr \in Headers : GetDbUri(hdr)
  \/ \E hdr \in Headers, u \in UriInputs : PutDbUri(hdr, u)
DbAdminStep == RebindClient \/ RebindDb \/ RebindDati

\* ------------------------------------------------------------ /admin/mqtt
\* JSON null in a response, and "x or None".
Null == "<null>"
OrNull(x) == IF x = "" THEN Null ELSE x

\* {**a, **b} and dict.pop(k, None), on dicts with string keys.
DictMerge(a, b) ==
  [k \in DOMAIN a \cup DOMAIN b |-> IF k \in DOMAIN b THEN b[k] ELSE a[k]]
Pop(d, k) == [x \in DOMAIN d \ {k} |-> d[x]]

\* A port that int() raises on.
BadPort == -1

\* The bodies of PUT /admin/mqtt, after the filter of lines 184-187: one
\* field, every field, a port that is no integer.
MqttPatches ==
  {[host |-> "hA"], [password |-> "pB"], [port |-> BadPort], CfgA, CfgB}

\* update_mqtt(new_cfg), lines 141-143: the persisted config with the
\* fields that new_cfg gives replaced.
update_mqtt(file, new_cfg) ==
  [host |-> Get(new_cfg, "host", file.host),
   port |-> Get(new_cfg, "port", file.port),
   username |-> Get(new_cfg, "username", file.username),
   password |-> Get(new_cfg, "password", file.password),
   base_topic |-> Get(new_cfg, "base_topic", file.base_topic)]

\* GetMqttOut that leaves the persisted password in the response.
GetMqttOut_NoPop(persisted, c) ==
  DictMerge(persisted,
            [host |-> c.host, port |-> c.port, base_topic |-> c.base_topic,
             username |-> OrNull(c.username),
             has_password |-> c.password # ""])

\* GET /admin/mqtt, lines 151-172: the persisted config overlaid with the
\* manager's fields, the password removed.
GetMqttOut(persisted, c) ==
  Pop(DictMerge(persisted,
                [host |-> c.host, port |-> c.port, base_topic |-> c.base_topic,
                 username |-> OrNull(c.username),
                 has_password |-> c.password # ""]),
      "password")

\* PUT /admin/mqtt, lines 203-210: the response of a saved config.
PutMqttOut(saved_cfg) ==
  [status |-> "ok", host |-> saved_cfg.host, port |-> saved_cfg.port,
   base_topic |-> saved_cfg.base_topic,
   username |-> OrNull(saved_cfg.username),
   has_password |-> saved_cfg.password # ""]

\* GET /admin/mqtt on request thread w.
GetMqtt(w, hdr) ==
  /\ route[w] = "none" /\ pc[w] = "idle"
  /\ nReq < MaxRequests
  /\ nReq' = nReq + 1
  /\ resp' = [resp EXCEPT ![w] =
        IF require_token(hdr) THEN Forbidden @@ [kind |-> "get"]
        ELSE [code |-> 200, kind |-> "get", body |-> GetMqttOut(mqttFile, cfg)]]
  /\ UNCHANGED <<mgrVars, msgVars, pubVars, token, mqttFile, storeVars, route,
                 req, pubMsg>>

\* PUT /admin/mqtt on request thread w, lines 178-192: the token, the
\* accepted fields, the port as an integer.
PutMqtt(w, hdr, patch) ==
  /\ route[w] = "none" /\ pc[w] = "idle"
  /\ nReq < MaxRequests
  /\ calls.restart < MaxRestarts
  /\ nReq' = nReq + 1
  /\ IF require_token(hdr)
       THEN /\ resp' = [resp EXCEPT ![w] = Forbidden @@ [kind |-> "put"]]
            /\ UNCHANGED <<route, req, calls>>
       ELSE IF "port" \in DOMAIN patch /\ patch.port = BadPort
         THEN /\ resp' = [resp EXCEPT ![w] =
                    [code |-> 400, kind |-> "put", status |-> "error"]]
              /\ UNCHANGED <<route, req, calls>>
         ELSE /\ req' = [req EXCEPT ![w] = [NoReq EXCEPT !.patch = patch]]
              /\ route' = [route EXCEPT ![w] = "m_read"]
              /\ calls' = [calls EXCEPT !.restart = @ + 1]
              /\ resp' = [resp EXCEPT ![w] = NoResp]
  /\ UNCHANGED <<cfg, client, connected, lockOwner, handles, pc, appOp, att,
                 delay, newCfg, nTasks, appRes, reachable, stopped, lastCfg,
                 held, msgVars, pubVars, token, mqttFile, storeVars, pubMsg>>

\* update_mqtt: "cfg = read_persisted_mqtt()" and the loop over the fields.
UpdateMqttRead(w) ==
  /\ route[w] = "m_read"
  /\ req' = [req EXCEPT ![w].saved = update_mqtt(mqttFile, req[w].patch)]
  /\ route' = [route EXCEPT ![w] = "m_write"]
  /\ UNCHANGED <<mgrVars, msgVars, pubVars, token, mqttFile, storeVars, resp,
                 nReq, pubMsg>>

\* update_mqtt: "_write_json(MQTT_FILE, cfg); return cfg"
UpdateMqttWrite(w) ==
  /\ route[w] = "m_write"
  /\ mqttFile' = req[w].saved
  /\ route' = [route EXCEPT ![w] = "m_call"]
  /\ UNCHANGED <<mgrVars, msgVars, pubVars, token, storeVars, req, resp,
                 nReq, pubMsg>>

\* "mqtt_obj.restart_with(saved_cfg)": the call, up to restart_with's five
\* locals (what RestartCall does for a direct call).
PutMqttRestart(w) ==
  /\ route[w] = "m_call" /\ pc[w] = "idle"
  /\ LET c == req[w].saved
     IN  /\ newCfg' = [newCfg EXCEPT ![w] =
               [host |-> Get(c, "host", cfg.host),
                port |-> Get(c, "port", cfg.port),
                base_topic |-> Get(c, "base_topic", cfg.base_topic),
                username |-> Get(c, "username", cfg.username),
                password |-> Get(c, "password", cfg.password)]]
         /\ lastCfg' = c
  /\ stopped' = FALSE
  /\ held' = [held EXCEPT ![w] = lockOwner]
  /\ pc' = [pc EXCEPT ![w] = "r_hostport"]
  /\ route' = [route EXCEPT ![w] = "m_resp"]
  /\ UNCHANGED <<cfg, client, connected, lockOwner, handles, appOp, att, delay,
                 nTasks, calls, appRes, reachable, msgVars, pubVars, token,
                 mqttFile, storeVars, req, resp, nReq, pubMsg>>

\* restart_with has returned: the response of lines 203-211.
PutMqttRespond(w) ==
  /\ route[w] = "m_resp" /\ pc[w] = "idle"
  /\ resp' = [resp EXCEPT ![w] =
        [code |-> 200, kind |-> "put", body |-> PutMqttOut(req[w].saved)]]
  /\ req' = [req EXCEPT ![w] = NoReq]
  /\ route' = [route EXCEPT ![w] = "none"]
  /\ UNCHANGED <<mgrVars, msgVars, pubVars, token, mqttFile, storeVars, nReq, pubMsg>>

\* A request to /admin/mqtt arrives on thread w; one step of the thread.
MqttAdminRequest(w) ==
  \/ \E hdr \in Headers : GetMqtt(w, hdr)
  \/ \E hdr \in Headers, patch \in MqttPatches : PutMqtt(w, hdr, patch)
MqttAdminStep(w) ==
  \/ UpdateMqttRead(w) \/ UpdateMqttWrite(w) \/ PutMqttRestart(w)
  \/ RestartStep(w) \/ PutMqttRespond(w)

\* ------------------------------------------------------------------- Next
\* One step of start(), stop() or a reconnect task.
LockStep(t) ==
  \/ Acquire(t) \/ CheckClient(t) \/ Teardown(t) \/ DropClient(t)
  \/ ClearConnected(t) \/ CreateClient(t) \/ Connect(t) \/ LoopStart(t)
  \/ Sleep(t) \/ GiveUp(t) \/ Release(t)

\* One step of the loop thread of a handle, or of the broker towards it.
TransportStep ==
  \E h \in HandleIds :
    \/ \E rc \in {0, 5} : ConnAck(h, rc)
    \/ ConnDrop(h)
    \/ LoopReconnect(h)

MessageStep ==
  \E h \in HandleIds :
    \/ \E t \in DeliveredTopics, p \in DeliveredPayloads :
          BrokerDeliver(h, [topic |-> t, payload |-> p])
    \/ \E stored \in BOOLEAN : OnMessage(h, stored)

PublishStep ==
  \/ \E d \in Devices : PublishCall(d)
  \/ PublishCheck \/ PublishTopic \/ PublishSend
  \/ \E acked \in BOOLEAN : PublishWait(acked)

Next ==
  \/ StartCall \/ StopCall
  \/ \E t \in LockThreads : LockStep(t)
  \/ \E w \in Admins : \/ \E c \in NewCfgs : RestartCall(w, c)
                       \/ RestartStep(w)
  \/ TransportStep
  \/ MessageStep
  \/ PublishStep

Spec == Init /\ [][Next]_vars

\* ------------------------------------------------------- the sub-systems
\* Spec interleaves every thread with every other; each property below is
\* stated on the threads it is about.
Adm1 == <<"adm", 1>>
EndpointOf(c) == <<c.host, c.port>>

\* The connection life cycle: start() and stop() on the application thread,
\* reconfigurations to CfgA from one request thread, their reconnect tasks,
\* and the transport.  CfgB is not used, so neither is its endpoint.
InitLife == Init /\ reachable \subseteq {EndpointOf(Cfg0), EndpointOf(CfgA)}
NextLife ==
  \/ StartCall \/ StopCall
  \/ \E t \in LockThreads : LockStep(t)
  \/ RestartCall(Adm1, CfgA)
  \/ RestartStep(Adm1)
  \/ TransportStep
SpecLife == InitLife /\ [][NextLife]_vars

\* Reconfigurations issued one after the other by one request thread, each
\* with any snapshot, after or during the one start() that create_app() calls.
NextSeq ==
  \/ calls.app = 0 /\ StartCall
  \/ \E t \in LockThreads : LockStep(t)
  \/ \E c \in NewCfgs : RestartCall(Adm1, c)
  \/ RestartStep(Adm1)
  \/ TransportStep
SpecSeq == Init /\ [][NextSeq]_vars

\* publish_cmd against start(), stop() and the transport, the broker of the
\* initial config being up or down.
InitPub == Init /\ reachable \subseteq {EndpointOf(Cfg0)}
NextPub ==
  \/ StartCall \/ StopCall
  \/ LockStep(AppT)
  \/ TransportStep
  \/ PublishStep
SpecPub == InitPub /\ [][NextPub]_vars

\* Inbound telemetry on the connection made by start(), the broker up or down.
InitMsg == Init /\ reachable \subseteq {EndpointOf(Cfg0)}
NextMsg ==
  \/ StartCall \/ StopCall
  \/ LockStep(AppT)
  \/ TransportStep
  \/ MessageStep
SpecMsg == InitMsg /\ [][NextMsg]_vars

\* _on_message on every message of the bounded alphabet: the manager is
\* connected (start() has returned True, the CONNACK was accepted) and the
\* loop thread holds one inbound message, any topic with any payload.
BoundedSeq(S, n) == UNION {[1..k -> S] : k \in 0..n}
TopicTokens == {"/", "dev-7", "telemetry"}
AllTopics == BoundedSeq(TopicTokens, MaxTopicLen) \ {<<>>}
AllPayloads == BoundedSeq(Bytes, MaxPayloadLen)
InitParse ==
  /\ \E t \in AllTopics, p \in AllPayloads :
       handles = << [NewHandle("", "", AppT) EXCEPT
                       !.host = Cfg0.host, !.port = Cfg0.port,
                       !.sock = "acked", !.loop = TRUE,
                       !.subs = {[filter |-> Cfg0.base_topic \o <<"/", "+", "/", "telemetry">>,
                                  qos |-> 1]},
                       !.inbox = << [topic |-> t, payload |-> p] >>] >>
  /\ cfg = Cfg0
  /\ client = 1
  /\ connected = TRUE
  /\ lockOwner = NoThread
  /\ pc = [t \in Threads |-> IF t \in Tasks THEN "unborn" ELSE "idle"]
  /\ appOp = "start"
  /\ att = [t \in LockThreads |-> 0]
  /\ delay = DelayStart
  /\ newCfg = [w \in Admins |-> Cfg0]
  /\ nTasks = 0
  /\ calls = [app |-> 1, restart |-> 0, publish |-> 0, msgs |-> 1]
  /\ appRes = "True"
  /\ pubDev = "dev-7"
  /\ pubTopic = <<>>
  /\ pubRes = [k |-> "none", topic |-> <<>>]
  /\ outbox = {}
  /\ dati = <<>>
  /\ clock = 1
  /\ failedAt = {}
  /\ reachable = {EndpointOf(Cfg0)}
  /\ stopped = FALSE
  /\ lastCfg = Cfg0
  /\ held = [w \in Admins |-> NoThread]
  /\ pubMsg = Msg0
  /\ InitWeb /\ token = NoToken /\ dbUp = TRUE
NextParse == \E h \in HandleIds, stored \in BOOLEAN : OnMessage(h, stored)
SpecParse == InitParse /\ [][NextParse]_vars

\* POST /devices/<id>/commands against the one start() of create_app(), one
\* reconfiguration to CfgA and its reconnect task, and the transport; the
\* broker of CfgA is up, that of Cfg0 up or down; no token is configured.
InitCmd ==
  /\ InitMgr /\ InitWeb
  /\ token = NoToken
  /\ dbUp = TRUE
  /\ EndpointOf(CfgA) \in reachable
  /\ reachable \subseteq {EndpointOf(Cfg0), EndpointOf(CfgA)}
NextCmd ==
  \/ calls.app = 0 /\ StartCall
  \/ \E t \in LockThreads : LockStep(t)
  \/ calls.restart = 0 /\ RestartCall(Adm1, CfgA)
  \/ RestartStep(Adm1)
  \/ TransportStep
  \/ calls.publish = 0 /\ CommandRequest
  \/ CommandStep
SpecCmd == InitCmd /\ [][NextCmd]_vars

\* GET /health against start() and a stop() after it, one reconfiguration
\* to CfgA and its reconnect task, and the transport; the storage server
\* up or down.
InitHealth ==
  /\ InitMgr /\ InitWeb
  /\ token = NoToken
  /\ dbUp \in BOOLEAN
  /\ reachable \subseteq {EndpointOf(Cfg0), EndpointOf(CfgA)}
NextHealth ==
  \/ calls.app = 0 /\ StartCall
  \/ calls.app = 1 /\ StopCall
  \/ \E t \in LockThreads : LockStep(t)
  \/ calls.restart = 0 /\ RestartCall(Adm1, CfgA)
  \/ RestartStep(Adm1)
  \/ TransportStep
  \/ HealthStep
SpecHealth == InitHealth /\ [][NextHealth]_vars

\* The storage module under POST /ingest, GET and PUT /admin/db and
\* GET /health, each on its own request thread; the manager is idle.
InitStore ==
  /\ InitMgr /\ InitWeb
  /\ token \in Tokens
  /\ dbUp \in BOOLEAN
  /\ reachable = {}
NextStore ==
  \/ IngestRequest \/ IngestStep
  \/ DbAdminRequest \/ DbAdminStep
  \/ HealthStep
SpecStore == InitStore /\ [][NextStore]_vars

\* Two requests to /admin/mqtt on two request threads, with the reconnect
\* tasks they start; every broker is up, and the manager holds no client
\* when the first request arrives.
InitPut ==
  /\ InitMgr /\ InitWeb
  /\ token = NoToken
  /\ dbUp = TRUE
  /\ reachable = Endpoints
NextPut ==
  \/ \E w \in Admins : \/ nReq < 2 /\ MqttAdminRequest(w)
                       \/ MqttAdminStep(w)
  \/ \E t \in Tasks : \/ Acquire(t) \/ CheckClient(t) \/ Teardown(t)
                      \/ DropClient(t) \/ ClearConnected(t) \/ CreateClient(t)
                      \/ Connect(t) \/ LoopStart(t) \/ Release(t)
SpecPut == InitPut /\ [][NextPut]_vars

\* The four routes that change something and the two admin GETs, one
\* request at a time, against a manager that start() has connected (it
\* returned True and the CONNACK was accepted); DR_TOKEN set or empty, the
\* storage up or down, the broker of CfgA up or down.
WebIdle ==
  /\ \A t \in WebThreads : route[t] = "none"
  /\ pc[Adm1] = "idle" /\ pc[PubT] = "idle"
InitHttp ==
  /\ InitWeb
  /\ token \in Tokens
  /\ dbUp \in BOOLEAN
  /\ cfg = Cfg0
  /\ handles = << [NewHandle("", "", AppT) EXCEPT
                     !.host = Cfg0.host, !.port = Cfg0.port,
                     !.sock = "acked", !.loop = TRUE,
                     !.subs = {[filter |-> telemetry_topic, qos |-> 1]}] >>
  /\ client = 1
  /\ connected = TRUE
  /\ lockOwner = NoThread
  /\ pc = [t \in Threads |-> IF t \in Tasks THEN "unborn" ELSE "idle"]
  /\ appOp = "start"
  /\ att = [t \in LockThreads |-> 0]
  /\ delay = DelayStart
  /\ newCfg = [w \in Admins |-> Cfg0]
  /\ nTasks = 0
  /\ calls = [app |-> 1, restart |-> 0, publish |-> 0, msgs |-> 0]
  /\ appRes = "True"
  /\ pubDev = "dev-7"
  /\ pubTopic = <<>>
  /\ pubRes = [k |-> "none", topic |-> <<>>]
  /\ outbox = {}
  /\ dati = <<>>
  /\ clock = 1
  /\ failedAt = {}
  /\ reachable \in {{EndpointOf(Cfg0)}, {EndpointOf(Cfg0), EndpointOf(CfgA)}}
  /\ stopped = FALSE
  /\ lastCfg = Cfg0
  /\ held = [w \in Admins |-> NoThread]
  /\ pubMsg = Msg0
NextHttp ==
  \/ WebIdle /\ calls.publish = 0 /\ nReq = 0 /\ CommandRequest
  \/ WebIdle /\ calls.publish = 0 /\ nReq = 0 /\ IngestRequest
  \/ WebIdle /\ calls.publish = 0 /\ nReq = 0 /\ DbAdminRequest
  \/ WebIdle /\ calls.publish = 0 /\ nReq = 0 /\ MqttAdminRequest(Adm1)
  \/ CommandStep
  \/ IngestStep
  \/ DbAdminStep
  \/ MqttAdminStep(Adm1)
  \/ \E t \in Tasks : LockStep(t)
  \/ TransportStep
SpecHttp == InitHttp /\ [][NextHttp]_vars

\* The life cycle under a fair scheduler: every thread that can take a step
\* of start(), stop() or _reconnect eventually takes one (a thread waiting
\* for the lock can take one when the lock is free), and a restart_with call
\* in progress goes on.  Two calls of the application thread, two
\* reconfigurations, and a reconnect task that may hit an unexpected error.
NextTerm ==
  \/ calls.app < 2 /\ (StartCall \/ StopCall)
  \/ \E t \in LockThreads : LockStep(t) \/ ReconnectError(t)
  \/ calls.restart < 2 /\ RestartCall(Adm1, CfgA)
  \/ RestartStep(Adm1)
  \/ TransportStep
FairTerm ==
  /\ \A t \in LockThreads : WF_vars(LockStep(t))
  /\ WF_vars(RestartStep(Adm1))
SpecTerm == InitLife /\ [][NextTerm]_vars /\ FairTerm

\* ------------------------------------------------------------- properties
\* No call is in progress and every reconnect task that was started is done.
Quiet ==
  /\ pc[AppT] = "idle"
  /\ \A w \in Admins : pc[w] = "idle"
  /\ \A t \in Tasks : pc[t] \in {"unborn", "done"}

\* C1 (SpecSeq): after two or more reconfigurations issued one after the
\* other, once every call has returned and every reconnect task has
\* finished, and the broker of the last snapshot accepts connections, the
\* manager holds exactly one live handle, its loop thread running, and that
\* handle was created with the user name and password and connected to the
\* host and port of the last snapshot, whose base topic is the one held.
C1_LastSnapshotWins ==
  (Quiet /\ nTasks >= 2 /\ EndpointOf(lastCfg) \in reachable) =>
     /\ client \in HandleIds
     /\ LiveHandles = {client}
     /\ handles[client].loop
     /\ handles[client].host = lastCfg.host
     /\ handles[client].port = lastCfg.port
     /\ handles[client].user = lastCfg.username
     /\ handles[client].pwd = lastCfg.password
     /\ cfg = lastCfg

\* Two reconfigurations, the last with CfgB, have ended in a session the
\* broker of CfgB accepted, the first task having had to replace the handle
\* of start().
C1_Witness ==
  /\ Quiet /\ nTasks = 2 /\ lastCfg = CfgB
  /\ Len(handles) = 3
  /\ client = 3
  /\ handles[3].host = CfgB.host /\ handles[3].sock = "acked"

\* C2 (SpecLife): restart_with never owns the guard, and every step of a
\* call in progress (the two assignments, the thread start) can be taken in
\* the state the caller is in, whoever owns the guard.
C2_RestartNeverBlocks ==
  \A w \in Admins :
    /\ lockOwner # w
    /\ pc[w] \in {"idle", "r_hostport", "r_creds", "r_spawn"}
    /\ pc[w] # "idle" => ENABLED RestartStep(w)

\* A restart_with call has returned, and at every one of its steps start()
\* owned the guard, as it still does, between two connect attempts.
C2_Witness ==
  /\ pc[Adm1] = "idle" /\ nTasks >= 1
  /\ held[Adm1] = AppT /\ lockOwner = AppT
  /\ pc[AppT] = "sleep" /\ att[AppT] >= 2

\* C3 (SpecLife): at most one handle is live, and a thread that is about to
\* create a client finds no live handle: the one held before was stopped
\* and disconnected.
C3_AtMostOneLive ==
  /\ Cardinality(LiveHandles) <= 1
  /\ \A t \in LockThreads : pc[t] = "new" => LiveHandles = {}

\* A second handle is live, in a session, the first having been torn down.
C3_Witness ==
  /\ Len(handles) >= 2
  /\ ~handles[1].open
  /\ \E h \in LiveHandles : handles[h].sock = "acked"

C5_StoppedStaysStopped == stopped => client = None /\ ~connected

\* C6 (SpecPub): the check of publish_cmd made while no handle is held ends
\* the call with the not-ready error: nothing is handed to a publish(), no
\* wait is entered, and the manager's state is as it was.
C6_NotReadyFailsFast ==
  [][ (pc[PubT] = "p_check" /\ pc'[PubT] # "p_check" /\ client = None) =>
        /\ pubRes'.k = "NotReady"
        /\ pc'[PubT] = "idle"
        /\ UNCHANGED <<outbox, cfg, client, connected, lockOwner, handles>> ]_vars

\* publish_cmd has ended not-ready after a stop().
C6_Witness == pubRes.k = "NotReady" /\ stopped /\ pc[PubT] = "idle"

\* C7 as stated (SpecPub): publish_cmd ends in the not-ready error or by
\* returning the topic, confirmed or not; it raises nothing else.
C7_OnlyNotReady == pubRes.k \in {"none", "NotReady", "published", "unconfirmed"}

\* C8 (SpecMsg): every handled message is either stored or counted as
\* failed; the step in which an insert fails leaves the client, the config,
\* the connection flag, the lock and the collection as they were, and of
\* the handles changes only the inbox of the one that took the message,
\* whose loop thread goes on with the rest.
C8_SinkFailureIsolated ==
  /\ [](Len(dati) + Cardinality(failedAt) = clock - 1)
  /\ [][ failedAt' # failedAt =>
           /\ UNCHANGED <<client, cfg, connected, lockOwner, dati, pc>>
           /\ \E h \in HandleIds :
                /\ handles[h].loop
                /\ handles' = [handles EXCEPT ![h] =
                                 [@ EXCEPT !.inbox = Tail(handles[h].inbox)]] ]_vars

\* A message was stored after the insert of an earlier one had failed.
C8_Witness ==
  \E f \in failedAt : \E i \in DOMAIN dati : dati[i].ts > f

\* C9 (SpecLife): the step in which a handle's connect is accepted sets the
\* connection flag and subscribes that handle, at QoS 1, to the held base
\* topic followed by /+/telemetry; the step in which a connect that was
\* awaiting its answer ends without a session leaves the handle without
\* subscription and the flag false.
C9_SubscribeOnConnect ==
  [][ \A h \in HandleIds :
        /\ (handles[h].sock = "open" /\ handles'[h].sock = "acked") =>
              /\ connected'
              /\ [filter |-> cfg.base_topic \o <<"/", "+", "/", "telemetry">>,
                  qos |-> 1] \in handles'[h].subs
        /\ (handles[h].sock = "open" /\ handles'[h].sock = "none") =>
              /\ ~connected'
              /\ handles'[h].subs = {} ]_vars

\* A handle whose loop thread reconnected it by itself is in a session again
\* and subscribed.
C9_Witness ==
  \E h \in LiveHandles :
    /\ handles[h].loopTried /\ handles[h].sock = "acked"
    /\ handles[h].subs # {}

\* json.dumps of a parsed document, over the same alphabet.
RECURSIVE Render(_)
Render(v) ==
  IF v.k = "num" THEN v.text
  ELSE <<"[">> \o (IF v.items = <<>> THEN <<>> ELSE Render(v.items[1])) \o <<"]">>

\* The payloads that are documents: n opening brackets, digits, n closing
\* brackets, the digits being optional when there is a bracket.
IsDocument(b) ==
  \E n \in 0..Len(b) :
    /\ 2 * n <= Len(b)
    /\ \A i \in 1..n : b[i] = "[" /\ b[Len(b) + 1 - i] = "]"
    /\ \A i \in (n + 1)..(Len(b) - n) : b[i] = "1"
    /\ n = 0 => b # <<>>

\* The second-to-last segment of a topic: what lies between its last "/"
\* and the "/" before that (or the start).
SecondToLast(topic) ==
  LET slashes == {i \in 1..Len(topic) : topic[i] = "/"}
      last == CHOOSE i \in slashes : \A j \in slashes : j <= i
      before == {i \in slashes : i < last}
      prev == IF before = {} THEN 0
              ELSE CHOOSE i \in before : \A j \in before : j <= i
  IN  IF slashes = {} THEN <<"unknown">> ELSE SubSeq(topic, prev + 1, last - 1)

\* C10 (SpecParse): a message whose insert succeeds adds exactly one
\* document: its device_id is the second-to-last segment of the topic
\* ("unknown" for a topic without "/"), its source is "mqtt", its topic the
\* topic received; its data is the parsed payload when the payload is a
\* document (serialising it gives the payload back), else {"raw": the
\* payload's text without the bytes that are no UTF-8}.
C10_RecordOfMessage ==
  [][ \A h \in HandleIds :
        (handles[h].inbox # <<>> /\ clock' = clock + 1 /\ dati' # dati) =>
           LET m == Head(handles[h].inbox)
               doc == dati'[Len(dati')]
           IN  /\ Len(dati') = Len(dati) + 1
               /\ SubSeq(dati', 1, Len(dati)) = dati
               /\ doc.device_id = SecondToLast(m.topic)
               /\ doc.source = "mqtt"
               /\ doc.topic = m.topic
               /\ doc.ts = clock
               /\ IF Utf8Ok(m.payload) /\ IsDocument(m.payload)
                    THEN doc.data.k \in {"num", "list"} /\ Render(doc.data) = m.payload
                    ELSE /\ doc.data.k = "raw"
                         /\ doc.data.text = SelectSeq(m.payload, IsKept) ]_vars

\* The document of a payload that is no document, on <device>/telemetry.
C10_Witness ==
  /\ dati # <<>>
  /\ dati[1].device_id = <<"dev-7">>
  /\ dati[1].topic = <<"dev-7", "/", "telemetry">>
  /\ dati[1].data = [k |-> "raw", items |-> <<>>, text |-> <<"]", "1">>]

\* C11 (SpecCmd): publish_cmd computes the topic as the held base topic,
\* "/", the device id of the request, "/cmd"; what it hands to the
\* transport is on that topic, at QoS 1, not retained, and a subscriber that
\* parses the payload finds the cmd and the params of the request; the
\* topic it returns, and the route answers, is that same topic.
C11_CommandTopic ==
  [][ /\ (pc[PubT] = "p_topic" /\ pc'[PubT] = "p_publish") =>
            pubTopic' = cfg.base_topic \o <<"/", req[PubT].dev, "/", "cmd">>
      /\ \A o \in outbox' \ outbox :
            /\ o.topic = pubTopic
            /\ \E c \in Snapshots :
                 o.topic = c.base_topic \o <<"/", req[PubT].dev, "/", "cmd">>
            /\ o.qos = 1 /\ ~o.retain
            /\ json_loads(o.payload.cmd) = req[PubT].cmd
            /\ json_loads(o.payload.params) = req[PubT].params
      /\ (pc[PubT] = "p_wait" /\ pc'[PubT] = "idle") =>
            /\ pubRes'.topic = pubTopic
            /\ \E o \in outbox : o.topic = pubTopic /\ o.device = req[PubT].dev
      /\ (route[PubT] = "c_log" /\ route'[PubT] = "none") =>
            /\ resp'[PubT].code = 200
            /\ resp'[PubT].topic = pubTopic
            /\ \E o \in outbox : o.topic = resp'[PubT].topic ]_vars

\* A command for dev-8 was answered with the topic under the base topic of
\* the reconfiguration, and published there.
C11_Witness ==
  /\ resp[PubT].code = 200
  /\ resp[PubT].topic = <<"iot", "/", "dr-A", "/", "dev-8", "/", "cmd">>
  /\ \E o \in outbox : /\ o.topic = resp[PubT].topic
                       /\ o.payload.params = <<"[", "1", "]">>

\* C12 as stated (SpecLife): every handle that was given an endpoint holds
\* the host, port, user name and password of one and the same snapshot,
\* and is subscribed under the base topic of that snapshot only.
C12_OneSnapshotPerConnection ==
  \A h \in LiveHandles :
    handles[h].host # NoHost =>
      \E c \in Snapshots :
        /\ handles[h].host = c.host /\ handles[h].port = c.port
        /\ handles[h].user = c.username /\ handles[h].pwd = c.password
        /\ \A sub \in handles[h].subs :
             sub.filter = c.base_topic \o <<"/", "+", "/", "telemetry">>

\* C13 (SpecHealth): is_connected() can be taken in every state in which it
\* is called, whoever owns the manager's lock; the step gives the caller
\* the boolean self._connected and changes nothing of the manager, of the
\* storage module or of the files; the caller never owns the lock.
C13_IsConnectedLockFree ==
  /\ [](route[HealthT] = "h_mqtt" => ENABLED IsConnected)
  /\ [](lockOwner # HealthT)
  /\ [][ (route[HealthT] = "h_mqtt" /\ route'[HealthT] # "h_mqtt") =>
           /\ req'[HealthT].mqtt = connected
           /\ req'[HealthT].mqtt \in BOOLEAN
           /\ route'[HealthT] = "h_resp"
           /\ UNCHANGED <<mgrVars, msgVars, pubVars, storeVars, token,
                          mqttFile, resp>> ]_vars

\* GET /health was answered from a read made while a reconnect task owned
\* the lock, which it still owns, asleep between two connect attempts.
C13_Witness ==
  /\ resp[HealthT].code = 200
  /\ resp[HealthT].lock \in Tasks
  /\ lockOwner = resp[HealthT].lock
  /\ pc[lockOwner] = "sleep" /\ att[lockOwner] >= 2

\* C15 (SpecHealth): GET /health is never answered with an error; the
\* response's db flag is the outcome of the ping, its mqtt flag what
\* is_connected() returned to the route, and its status is "ok" exactly
\* when both are true, "degraded" otherwise.
C15_HealthAlwaysAnswers ==
  /\ [](resp[HealthT].code \in {0, 200})
  /\ [][ (route[HealthT] = "h_ping" /\ route'[HealthT] # "h_ping") =>
            req'[HealthT].ok = dbUp ]_vars
  /\ [][ (route[HealthT] = "h_resp" /\ route'[HealthT] # "h_resp") =>
           /\ resp'[HealthT].code = 200
           /\ resp'[HealthT].db = req[HealthT].ok
           /\ resp'[HealthT].mqtt = req[HealthT].mqtt
           /\ resp'[HealthT].status = "ok" <=> (resp'[HealthT].db /\ resp'[HealthT].mqtt)
           /\ resp'[HealthT].status \in {"ok", "degraded"} ]_vars

\* start() has given up, its retries used up, and GET /health has answered
\* "degraded" with the storage up and the bus down.
C15_Witness ==
  /\ appRes = "False"
  /\ resp[HealthT].code = 200
  /\ resp[HealthT].status = "degraded"
  /\ resp[HealthT].db /\ ~resp[HealthT].mqtt

C19_RebindToNewUri ==
  /\ []( (route[DbT] = "none" /\ resp[DbT].code = 200 /\ resp[DbT].kind = "put") =>
           /\ dbFile = resp[DbT].uri
           /\ {dbClient, dbDb, dbDati} \subseteq {NoHandle, resp[DbT].uri} )
  /\ [][ (route[DbT] = "d_dati" /\ route'[DbT] = "none") =>
           dbClient' = NoHandle /\ dbDb' = NoHandle /\ dbDati' = NoHandle ]_vars
  /\ [][ (resp[DbT].code = 200 /\ resp[DbT].kind = "put" /\ resp'[DbT].code = 200
          /\ resp'[DbT].kind = "get") => resp'[DbT].uri = resp[DbT].uri ]_vars
  /\ [][ (resp'[DbT] # resp[DbT] /\ resp'[DbT].code = 400) =>
           UNCHANGED <<dbFile, dbClient, dbDb, dbDati>> ]_vars

\* No request to /admin/mqtt is being handled, and a PUT has been answered ok.
PutsCompleted ==
  /\ \A w \in Admins : route[w] = "none" /\ pc[w] = "idle"
  /\ \E w \in Admins : resp[w].code = 200 /\ resp[w].kind = "put"

\* C18: once every PUT /admin/mqtt has completed, overlapping ones included,
\* the config the manager holds equals the persisted config field by field,
\* and GET /admin/mqtt returns the persisted host, port, base_topic, username.
C18_HeldEqualsPersisted ==
  PutsCompleted =>
    /\ cfg = mqttFile
    /\ LET out == GetMqttOut(mqttFile, cfg)
       IN  /\ out.host = mqttFile.host
           /\ out.port = mqttFile.port
           /\ out.base_topic = mqttFile.base_topic
           /\ out.username = OrNull(mqttFile.username)

\* The non-empty passwords, and a config with its non-empty password replaced.
Passwords == {"pA", "pB"}
WithPassword(c, p) == IF c.password = "" THEN c ELSE [c EXCEPT !.password = p]

\* C17: the responses of GET and PUT /admin/mqtt hold no password: each is
\* the response its route computes, has no "password" field, and is the same
\* whatever non-empty password is persisted or held; has_password tells only
\* whether the password is non-empty.
C17_NoPasswordInResponses ==
  /\ [](\A p1 \in Passwords, p2 \in Passwords :
          /\ GetMqttOut(WithPassword(mqttFile, p1), WithPassword(cfg, p2))
               = GetMqttOut(mqttFile, cfg)
          /\ "password" \notin DOMAIN GetMqttOut(mqttFile, cfg)
          /\ GetMqttOut(mqttFile, cfg).has_password = (cfg.password # ""))
  /\ [][\A w \in Admins :
          resp'[w] # resp[w] /\ resp'[w].code = 200 =>
            /\ "password" \notin DOMAIN resp'[w].body
            /\ resp'[w].kind = "get" => resp'[w].body = GetMqttOut(mqttFile, cfg)
            /\ resp'[w].kind = "put" =>
                 /\ resp'[w].body = PutMqttOut(req[w].saved)
                 /\ resp'[w].body.has_password = (req[w].saved.password # "")
                 /\ \A p \in Passwords :
                      PutMqttOut(WithPassword(req[w].saved, p)) = resp'[w].body]_vars

\* A GET answered while a non-empty password is persisted and held, and a PUT
\* answered for a config with a non-empty password.
C17_Witness ==
  /\ mqttFile.password # "" /\ cfg.password # ""
  /\ \E w \in Admins :
       resp[w].code = 200 /\ resp[w].kind = "get" /\ resp[w].body.has_password
  /\ \E w \in Admins :
       resp[w].code = 200 /\ resp[w].kind = "put" /\ resp[w].body.has_password

\* A token is configured and the header is missing or another text.
Rejected(hdr) == token # NoToken /\ hdr # token

\* Nothing published, stored, persisted or changed in the manager.
NothingChanged ==
  UNCHANGED <<outbox, dati, commands, dbFile, mqttFile, dbClient, dbDb, dbDati,
              cfg, client, connected, handles, lockOwner, nTasks, pc, route>>

\* The answer of thread t to a request with header hdr.
Gate(hdr, t) ==
  IF Rejected(hdr)
    THEN resp'[t].code = 403 /\ resp'[t].status = "forbidden" /\ NothingChanged
    ELSE resp'[t].code # 403

\* C16: with DR_TOKEN configured, a request to POST /devices/<id>/commands,
\* POST /ingest/<id>, PUT /admin/db or PUT /admin/mqtt whose header is missing
\* or differs from the token is answered 403 and nothing is published, stored,
\* persisted or changed in the manager; every other request to them, and
\* every request when DR_TOKEN is empty, is not answered 403.
C16_TokenGate ==
  /\ [](token = NoToken => \A t \in WebThreads : resp[t].code # 403)
  /\ [][\A hdr \in Headers :
          /\ (\E d \in CmdDevices, cmd \in CmdValues, params \in ParamValues :
                PostCommand(hdr, d, cmd, params)) => Gate(hdr, PubT)
          /\ (\E d \in CmdDevices, body \in IngestBodies :
                PostIngest(hdr, d, body)) => Gate(hdr, IngT)
          /\ (\E u \in UriInputs : PutDbUri(hdr, u)) => Gate(hdr, DbT)
          /\ (\E patch \in MqttPatches : PutMqtt(Adm1, hdr, patch))
                => Gate(hdr, Adm1)]_vars

\* With a token configured, a command and a PUT /admin/mqtt have been
\* answered 403, and the manager is as start() left it.
C16_Witness ==
  /\ token # NoToken
  /\ resp[PubT].code = 403
  /\ resp[Adm1].code = 403 /\ resp[Adm1].kind = "put"
  /\ outbox = {} /\ commands = {} /\ mqttFile = Cfg0 /\ cfg = Cfg0 /\ connected

\* The body is a JSON text.
Parseable(b) == b # <<>> /\ Utf8Ok(b) /\ json_loads(b).k # "fail"

\* This step answers a request to /ingest that passed the token; this step
\* is one of the thread that handles it.
IngestAnswered == resp'[IngT] # resp[IngT] /\ resp'[IngT].code \notin {0, 403}
IngestMoved ==
  resp'[IngT] # resp[IngT] \/ route'[IngT] # route[IngT] \/ req'[IngT] # req[IngT]

\* This step appends one record to the telemetry collection: device d,
\* source "http", data v and a timestamp not after now.
StoredOne(d, v) ==
  /\ Len(dati') = Len(dati) + 1
  /\ SubSeq(dati', 1, Len(dati)) = dati
  /\ LET doc == dati'[Len(dati')]
     IN  /\ doc.device_id = d /\ doc.source = "http" /\ doc.data = v
         /\ doc.ts \in 1..clock

\* The manager's handle, held config and connection state.
ManagerUnchanged == UNCHANGED <<client, cfg, connected, handles, lockOwner>>

\* C20: POST /ingest/<device_id> with a JSON body stores exactly one record
\* (device_id, source "http", the body as data, a receipt timestamp) and
\* answers ok; without a parseable JSON body it answers 400 and stores
\* nothing; the manager's handle, config and connection state are unchanged.
C20_IngestStoresOne ==
  [][/\ IngestMoved => ManagerUnchanged
     /\ IngestAnswered =>
          LET r == resp'[IngT]
          IN  IF Parseable(r.of.body)
                THEN /\ r.code = 200 /\ r.status = "ok"
                     /\ StoredOne(r.of.dev, json_loads(r.of.body))
                ELSE r.code = 400 /\ dati' = dati]_vars

\* C20, amended: a body that parses to a value other than null, with the
\* storage answering, stores exactly that one record and answers ok; with the
\* storage not answering the request is answered 500 and nothing is stored;
\* no body, a body that is no JSON, or the body null, is answered 400 and
\* nothing is stored; the manager is unchanged in every case.
C20_IngestStoresOneOrFails ==
  [][/\ IngestMoved => ManagerUnchanged
     /\ IngestAnswered =>
          LET r == resp'[IngT]
              v == get_json(r.of.body)
          IN  IF v = JsonNone THEN r.code = 400 /\ dati' = dati
              ELSE IF dbUp
                THEN /\ r.code = 200 /\ r.status = "ok"
                     /\ StoredOne(r.of.dev, v)
                ELSE r.code = 500 /\ dati' = dati]_vars

\* A request with the body [1] for dev-8 has been stored and answered ok,
\* while the manager holds its client.
C20_Witness ==
  /\ resp[IngT].code = 200 /\ resp[IngT].of.dev = "dev-8"
  /\ Len(dati) = 1 /\ dati[1].source = "http" /\ dati[1].data = ListOfOne
  /\ dati[1].device_id = "dev-8"
  /\ client # None

\* This step is one of the thread that owns the guard.
OwnerMoves == lockOwner # NoThread /\ pc'[lockOwner] # pc[lockOwner]

\* C21: self._connected, self.client and the held config fields are written
\* only by the thread that holds the guard; no transport callback and no
\* restart_with call writes one of them without it.
C21_WritesUnderGuard ==
  [][(connected' # connected \/ client' # client \/ cfg' # cfg) => OwnerMoves]_vars

\* The held handle exists and its latest transport event is an accepted CONNACK.
HeldHandleAcked ==
  client \in HandleIds /\ handles[client].open /\ handles[client].sock = "acked"

\* C22: is_connected() is true only while a handle is held whose latest
\* transport event is a successful connect; it is false after a disconnect, a
\* refused connect, a teardown and an exhausted budget, and turns true only
\* by a successful connect of the held handle.
C22_ConnectedMeansAcked ==
  /\ [](connected => HeldHandleAcked)
  /\ [](\A t \in LockThreads : pc[t] \in {"td_flag", "new", "conn", "giveup"} /\ lockOwner = t
           => ~connected)
  /\ [][/\ (\E h \in HandleIds : handles[h].sock # "none" /\ handles'[h].sock = "none")
             => ~connected'
        /\ ~connected /\ connected'
             => /\ client' = client /\ client \in HandleIds
                /\ handles[client].sock = "open" /\ handles'[client].sock = "acked"]_vars

\* After a reconfiguration: the first handle is closed, the second is held
\* and its CONNACK was accepted.
C22_Witness ==
  /\ connected /\ client = 2
  /\ ~handles[1].open /\ handles[2].sock = "acked"

\* C23: the records of inbound messages are inserted in the order of receipt:
\* a handle's received messages queue up at the end, the one handled is the
\* oldest, its insert (or the failure of it) is over before the next is
\* taken, and the collection grows in that order.
C23_InsertsInReceiptOrder ==
  /\ [](\A i \in 1..Len(dati), j \in 1..Len(dati) : i < j => dati[i].ts < dati[j].ts)
  /\ [][/\ \A h \in HandleIds :
             LET a == handles[h].inbox
                 b == handles'[h].inbox
             IN  a # b =>
                   \/ b = <<>>
                   \/ Len(b) = Len(a) + 1 /\ SubSeq(b, 1, Len(a)) = a
                   \/ /\ b = Tail(a)
                      /\ clock' = clock + 1
                      /\ \/ dati' = Append(dati, TelemetryDoc(Head(a), clock))
                         \/ dati' = dati /\ failedAt' = failedAt \cup {clock}
        /\ dati' # dati =>
             \E h \in HandleIds : handles[h].inbox # <<>>
                                    /\ handles'[h].inbox = Tail(handles[h].inbox)]_vars

\* Two messages with different payloads were received before either was
\* handled; the first is stored, the second is still queued.
C23_Witness ==
  /\ Len(dati) = 1 /\ calls.msgs = 2
  /\ \E h \in HandleIds :
       /\ Len(handles[h].inbox) = 1
       /\ PayloadData(handles[h].inbox[1].payload) # dati[1].data
       /\ dati[1].ts = 1

\* The delay after the n-th failed attempt of an epoch: 0.5, then 1.5 times
\* the one before, at most 4.0.
RECURSIVE Backoff(_)
Backoff(n) == IF n <= 1 THEN DelayStart ELSE Min((Backoff(n - 1) * 3) \div 2, DelayCap)

\* C24: the delay slept after a failed attempt starts at 0.5, grows by 1.5
\* per failure, stays at or below 4.0 and never decreases within an epoch,
\* in start() and in the reconnect task of a reconfiguration alike.
C24_BackoffEverywhere ==
  /\ [](\A t \in LockThreads :
          pc[t] = "sleep" =>
            /\ SleepDelay(t) = Backoff(att[t])
            /\ DelayStart <= SleepDelay(t) /\ SleepDelay(t) <= DelayCap)
  /\ [][\A t \in LockThreads :
          pc[t] = "sleep" /\ pc'[t] = "conn" =>
            /\ delay' >= delay
            /\ t = AppT => delay' = Min((delay * 3) \div 2, DelayCap)]_vars

\* C25: a sleep between connect retries happens only on a background
\* reconnect task, never on the thread that called start() or restart_with.
C25_SleepsOnlyOnTask ==
  \A t \in Threads : pc[t] = "sleep" => t \in Tasks

\* A thread is inside start(), stop() or _reconnect, or waits to enter.
Busy(t) == pc[t] \notin {"idle", "done", "unborn"}

\* C26: every thread waiting for the guard, a reconnect task or a call of
\* start() or stop(), gets through its guarded block and out of it, whether
\* it connected, used up its attempts or hit an unexpected error; a thread
\* owns the guard exactly while inside the block; and while a thread is busy
\* some thread can take a step, a teardown under the guard included.
C26_TasksEndGuardFreed ==
  /\ \A t \in LockThreads : (pc[t] = "acq") ~> (pc[t] \in {"idle", "done"})
  /\ [](\A t \in LockThreads :
          IF pc[t] \in {"idle", "done", "unborn", "acq"} THEN lockOwner # t
                                                         ELSE lockOwner = t)
  /\ []((\E t \in LockThreads : Busy(t))
          => ENABLED (\E t \in LockThreads : LockStep(t)))

\* A reconnect task waits for the guard while another thread, holding it,
\* tears the connected client down.
C26_Witness ==
  \E t \in Tasks :
    /\ pc[t] = "acq"
    /\ lockOwner \in LockThreads \ {t}
    /\ pc[lockOwner] = "td_stop"
    /\ client \in HandleIds /\ handles[client].loop

\* rebind_after_config_change() is between its three assignments.
Rebinding == route[DbT] \in {"d_db", "d_dati"}

\* C27: under any interleaving of rebind_after_config_change() with the
\* getters, a cached database or collection handle belongs to the cached
\* client; in particular, once rebind has returned, none belongs to the
\* client it closed.
C27_CachedHandlesCoherent ==
  ~Rebinding =>
    /\ dbDb # NoHandle => dbDb = dbClient
    /\ dbDati # NoHandle => dbDati = dbDb /\ dbDati = dbClient

====
